---------------------------- MODULE Spec2Model ----------------------------
(***************************************************************************)
(* A model of the DepthAI daemon (src/depthai_daemon.py) and of the status *)
(* reader of its Python client (src/clients/python/python_client.py).      *)
(*                                                                         *)
(* Three activities are modelled: the main thread (main, DepthAIDaemon.run *)
(* and _process_frames), the health monitor thread (_monitor_loop) and the *)
(* signal handlers, which Python runs in the main thread between two       *)
(* bytecodes and which the model therefore interleaves with every step.    *)
(* An out-of-process reader (DepthAIClient.get_status) reads the status    *)
(* file at arbitrary moments.                                              *)
(*                                                                         *)
(* Spec       the whole process from main() on, without SIGHUP.            *)
(*            _detect_device_features has no return statement, so run line *)
(*            634 stores None in available_features and line 638 raises on *)
(*            every connection: lines 646-664 and _process_frames are      *)
(*            never reached from main(), and Spec's next-state relation    *)
(*            leaves them out.                                             *)
(* SpecStream the streaming phase of run (lines 646-676) and               *)
(*            _process_frames, _save_frame, _save_imu_data and             *)
(*            _cleanup_old_files, entered at line 646 with each capability *)
(*            dictionary _detect_device_features builds (lines 305-344).   *)
(* SpecReload the streaming phase and the reconnect loop of a process that *)
(*            receives SIGHUP (_reload_config) at any moment.              *)
(* SpecConfig DepthAIConfig._merge_config and load_config on their own.    *)
(* SpecStats  DepthAIStats.update_frame_stats on its own.                  *)
(* SpecHealth HealthMonitor._check_health on its own.                      *)
(***************************************************************************)
EXTENDS Integers, Sequences, FiniteSets

\* ------------------------------------------------------------------ bounds
\* update_frame_stats is called up to MaxCalls times on its own
MaxCalls == 33
\* the clock ticks between two calls of update_frame_stats range over 0..MaxElapsed
MaxElapsed == 2
\* at most MaxRepeats calls are made at the time of the previous call
MaxRepeats == 1
\* at most MaxSlow calls are made more than one tick after the previous call
MaxSlow == 1
\* _check_health is given snapshots with up to MaxSnapshotFrames frames
MaxSnapshotFrames == 100
\* and up to MaxSnapshotErrors errors
MaxSnapshotErrors == 11
\* service.max_reconnect_attempts ranges over 0..MaxAttempts
MaxAttempts == 2
\* DepthAIStats.error_count is followed up to MaxErrors
MaxErrors == 2
\* DepthAIStats.frame_count is followed up to MaxFrames
MaxFrames == 2
\* output.max_files ranges over 0..MaxFiles
MaxFiles == 2
\* at most MaxSaves image writes are followed
MaxSaves == 3
\* DepthAIStats.imu_data_count is followed up to MaxPackets
MaxPackets == 2
\* the wall clock is followed over 0..MaxClock, in ticks of one microsecond reading
MaxClock == 2
\* the clock readings that fall into one second (%S) of a file name
TicksPerSecond == 2

\* the top-level keys of the status document, in the order json.dump writes them
StatusKeys == <<"timestamp", "status", "pid", "stats", "health">>

VARIABLES
    pc,                 \* position of the main thread
    running,            \* DepthAIDaemon.running (the stop flag, negated)
    config,             \* DepthAIDaemon.config.config, the fields the model reads
    reconnect_attempts, \* run: reconnect_attempts
    max_attempts,       \* run: max_attempts, read once at line 620
    device,             \* the dai.Device of the with block: "closed", "open", "lost"
    device_info,        \* DepthAIDaemon.device_info was filled in
    available_features, \* DepthAIDaemon.available_features
    pipeline,           \* stream names of the pipeline built for this attempt
    queues,             \* run: queues, the names of the output queues obtained
    raised_at,          \* the step whose exception the handler at line 666 holds
    stats,              \* DepthAIStats: frame_count, error_count, imu_data_count
    frame_count,        \* _process_frames: the local frame_count
    files,              \* output_directory/*.jpg: name and ctime, oldest ctime first
    imu_files,          \* output_directory/imu/*.json: the names
    writes,             \* the image files written so far; a file's ctime is its number
    clock,              \* the wall clock, in ticks
    logged,             \* the error the last step of _process_frames logged, or "none"
    hpc,                \* position of the health monitor thread
    monitor_running,    \* HealthMonitor.running
    status_file,        \* the status file: exists, number of keys on disk
    last_tick,          \* how the last _update_status ended: "none", "written", "failed"
    observed,           \* what the last get_status of the reader found
    exit_status,        \* the exit status of the process, -1 while it runs
    config_file,        \* the file at config_path: state and parsed content
    monitor_config,     \* HealthMonitor.config.config, the fields the model reads
    default,            \* _merge_config: the argument default
    user,               \* _merge_config: the argument user
    result,             \* what the last call of _merge_config or load_config returned
    calls,              \* the calls of update_frame_stats so far, by elapsed time
    health,             \* what the last call of _check_health returned
    listing,            \* _cleanup_old_files: the listing it took, what is left to unlink
    lock,               \* DepthAIStats.lock: "free" or the thread that holds it
    status_stats,       \* _update_status: the local stats, what get_stats returned
    call_time,          \* update_frame_stats: the local current_time
    status,             \* _update_status: the local status, the document being built
    published           \* the last document json.dump wrote to the status file

supervisor_vars == <<pc, running, config, reconnect_attempts, max_attempts, device,
                     device_info, available_features, pipeline, queues, raised_at>>
dispatch_vars == <<frame_count, files, imu_files, writes, clock, logged>>
health_vars == <<hpc, monitor_running, status_file, last_tick>>
config_vars == <<config_file, monitor_config>>
unit_vars == <<default, user, result, calls, health>>
document_vars == <<status, published>>
step_vars == <<listing, lock, status_stats, call_time, document_vars>>
rest_vars == <<config_vars, unit_vars, step_vars>>
vars == <<supervisor_vars, dispatch_vars, health_vars, stats, observed, exit_status,
          rest_vars>>

\* ------------------------------------------------------------ configuration
\* A JSON value is a map (a Python dict) with its items, or a value of another type.
Map(items) == [map |-> TRUE, items |-> items]
Leaf(val) == [map |-> FALSE, val |-> val]

\* DepthAIConfig._merge_config: result = default.copy(), then every key of user is
\* merged recursively when both sides are dicts and assigned otherwise
RECURSIVE merge_config(_, _)
merge_config(default_doc, user_doc) ==
    LET d == default_doc.items
        u == user_doc.items
    IN  Map([key \in DOMAIN d \cup DOMAIN u |->
                IF key \in DOMAIN u
                THEN IF key \in DOMAIN d /\ d[key].map /\ u[key].map
                     THEN merge_config(d[key], u[key])
                     ELSE u[key]
                ELSE d[key]])

\* the file at config_path: absent, or not JSON (or not readable), or a JSON value
Missing == [state |-> "missing"]
Malformed == [state |-> "malformed"]
Json(content) == [state |-> "json", content |-> content]

\* DepthAIConfig.save_config: the file after json.dump(config, f); an OSError is
\* caught at line 88 and leaves the file as it was
save_config(file, doc, saved) == IF saved THEN Json(doc) ELSE file

\* load_config without the save_config of line 76
load_config_without_save(default_doc, file, saved) ==
    IF file.state = "json" /\ file.content.map
    THEN [returned |-> merge_config(default_doc, file.content), file |-> file]
    ELSE [returned |-> default_doc, file |-> file]

\* DepthAIConfig.load_config: what it returns and the file it leaves.  json.load
\* raises on a malformed file and user.items() on JSON that is not an object; both
\* are caught at line 78.
load_config(default_doc, file, saved) ==
    IF file.state = "missing"
    THEN [returned |-> default_doc, file |-> save_config(file, default_doc, saved)]
    ELSE IF file.state = "json" /\ file.content.map
    THEN [returned |-> merge_config(default_doc, file.content), file |-> file]
    ELSE [returned |-> default_doc, file |-> file]

\* DepthAIConfig.DEFAULT_CONFIG, the keys the model reads
DEFAULT_CONFIG ==
    Map([camera |-> Map([depth_enabled |-> Leaf(TRUE), imu_enabled |-> Leaf(TRUE)]),
         ai |-> Map([model_enabled |-> Leaf(FALSE), model_path |-> Leaf("")]),
         output |-> Map([save_frames |-> Leaf(FALSE), max_files |-> Leaf(1000)]),
         service |-> Map([health_check_interval |-> Leaf(30),
                          max_reconnect_attempts |-> Leaf(5)])])

\* self.config.config[section][key] for the keys the model reads (model_path is TRUE
\* for a non-empty path)
ConfigOf(doc) ==
    [max_reconnect_attempts |-> doc.items.service.items.max_reconnect_attempts.val,
     depth_enabled |-> doc.items.camera.items.depth_enabled.val,
     imu_enabled |-> doc.items.camera.items.imu_enabled.val,
     model_enabled |-> doc.items.ai.items.model_enabled.val,
     model_path |-> doc.items.ai.items.model_path.val # "",
     save_frames |-> doc.items.output.items.save_frames.val,
     max_files |-> doc.items.output.items.max_files.val,
     health_check_interval |-> doc.items.service.items.health_check_interval.val]

\* the sections of DEFAULT_CONFIG and their keys
Sections ==
    [camera |-> {"depth_enabled", "imu_enabled"},
     ai |-> {"model_enabled", "model_path"},
     output |-> {"save_frames", "max_files"},
     service |-> {"health_check_interval", "max_reconnect_attempts"}]

\* the user's file that yields the configuration c: it holds the keys whose value
\* differs from DEFAULT_CONFIG, each under its section
Document(c) ==
    LET value(key) == IF key = "model_path"
                      THEN Leaf(IF c.model_path THEN "model.blob" ELSE "")
                      ELSE Leaf(c[key])
        changed(section) == {key \in Sections[section] :
                                value(key) # DEFAULT_CONFIG.items[section].items[key]}
    IN  Map([section \in {x \in DOMAIN Sections : changed(x) # {}} |->
                Map([key \in changed(section) |-> value(key)])])

\* the effective configurations load_config can return: DEFAULT_CONFIG merged with
\* the user's file (model_path is TRUE for a non-empty path)
Configs ==
    [max_reconnect_attempts : 0..MaxAttempts,
     depth_enabled : BOOLEAN,
     imu_enabled : BOOLEAN,
     model_enabled : BOOLEAN,
     model_path : BOOLEAN,
     save_frames : BOOLEAN,
     max_files : 0..MaxFiles,
     health_check_interval : {5, 30}]

\* DepthAIDaemon.__init__: the features assumed before any detection
InitialFeatures == [none |-> FALSE, imu |-> FALSE, temperature |-> FALSE]

\* the value a function without a return statement yields
None == [none |-> TRUE, imu |-> FALSE, temperature |-> FALSE]

\* dict.get(key, False) on available_features; None has no attribute get
HasGet(f) == ~f.none


\* ------------------------------------------------------ Statistics (DepthAIStats)
\* DepthAIStats.increment_error
increment_error(s) == [s EXCEPT !.error_count = @ + 1]

\* line 121: the capacity of fps_history
FpsWindow == 30

\* a frame rate as a fraction of frames per second; times are in clock ticks
Rate(elapsed) == [num |-> TicksPerSecond, den |-> elapsed]
NoRate == [num |-> 0, den |-> 1]

\* the float comparison rate < 1.0
BelowOne(rate) == rate.num < rate.den

\* line 119: 1.0 / (current_time - self.last_frame_time) raises ZeroDivisionError
\* when the two times are equal
ZeroDivisionError(s, current_time) ==
    s.last_frame_time > 0 /\ current_time - s.last_frame_time = 0

\* lines 120-122: fps_history.append(fps), then pop(0) beyond the capacity
push_fps(history, fps) ==
    LET appended == history \o <<fps>>
    IN  IF Len(appended) > FpsWindow THEN Tail(appended) ELSE appended

\* update_frame_stats with a history that is never cut
update_frame_stats_unbounded(s, current_time) ==
    IF ZeroDivisionError(s, current_time)
    THEN s
    ELSE [s EXCEPT !.fps_history =
                       IF s.last_frame_time > 0
                       THEN @ \o <<Rate(current_time - s.last_frame_time)>>
                       ELSE @,
                   !.frame_count = @ + 1,
                   !.last_frame_time = current_time]

\* DepthAIStats.update_frame_stats at the time current_time.  The exception of line
\* 119 leaves the method before anything is assigned: the object is as it was.
update_frame_stats(s, current_time) ==
    IF ZeroDivisionError(s, current_time)
    THEN s
    ELSE [s EXCEPT !.fps_history =
                       IF s.last_frame_time > 0
                       THEN push_fps(@, Rate(current_time - s.last_frame_time))
                       ELSE @,
                   !.frame_count = @ + 1,
                   !.last_frame_time = current_time]

\* DepthAIStats.get_stats: the fields of the snapshot the model reads
get_stats(s) ==
    [total_frames |-> s.frame_count,
     error_count |-> s.error_count,
     current_fps |-> IF s.fps_history # <<>>
                     THEN s.fps_history[Len(s.fps_history)] ELSE NoRate,
     imu_data_count |-> s.imu_data_count]

\* DepthAIStats.update_imu_stats
update_imu_stats(s) == [s EXCEPT !.imu_data_count = @ + 1]

\* -------------------------------------------------------------- main thread
\* main, line 698: DepthAIDaemon(args.config).  The constructor creates the status
\* and log directories; an OSError there is raised outside main's try block and
\* ends the interpreter with status 1.
Construct ==
    /\ pc = "construct"
    /\ \E ok \in BOOLEAN :
         IF ok
         THEN pc' = "run" /\ exit_status' = exit_status
         ELSE pc' = "exited" /\ exit_status' = 1
    /\ UNCHANGED <<running, config, reconnect_attempts, max_attempts, device, device_info,
                   available_features, pipeline, queues, raised_at, dispatch_vars,
                   health_vars, stats, observed, rest_vars>>

\* run, lines 614-621: start the monitor thread, read the retry limit.  A thread that
\* cannot be started raises out of run: main, lines 704-706, exits with status 1.
RunStart ==
    /\ pc = "run"
    /\ \E started \in BOOLEAN :
         IF started
         THEN /\ hpc' = "while_running"
              /\ reconnect_attempts' = 0
              /\ max_attempts' = config.max_reconnect_attempts
              /\ pc' = "loop_check"
              /\ exit_status' = exit_status
         ELSE /\ pc' = "exited"
              /\ exit_status' = 1
              /\ UNCHANGED <<hpc, reconnect_attempts, max_attempts>>
    /\ UNCHANGED <<running, config, device, device_info, available_features, pipeline,
                   queues, raised_at, dispatch_vars, monitor_running, status_file,
                   last_tick, stats, observed, rest_vars>>

\* the loop test without the stop flag
LoopCheck_ignores_running ==
    /\ pc = "loop_check"
    /\ pc' = IF reconnect_attempts < max_attempts
             THEN "create_pipeline" ELSE "stop_monitoring"
    /\ UNCHANGED <<running, config, reconnect_attempts, max_attempts, device, device_info,
                   available_features, pipeline, queues, raised_at, dispatch_vars,
                   health_vars, stats, observed, rest_vars, exit_status>>

\* run, line 623: while self.running and reconnect_attempts < max_attempts
LoopCheck ==
    /\ pc = "loop_check"
    /\ pc' = IF running /\ reconnect_attempts < max_attempts
             THEN "create_pipeline" ELSE "stop_monitoring"
    /\ UNCHANGED <<running, config, reconnect_attempts, max_attempts, device, device_info,
                   available_features, pipeline, queues, raised_at, dispatch_vars,
                   health_vars, stats, observed, rest_vars, exit_status>>

\* _create_pipeline: the names given to setStreamName
Streams(c, f) ==
    {"rgb"} \cup (IF c.depth_enabled THEN {"depth"} ELSE {})
            \cup (IF c.model_enabled /\ c.model_path THEN {"detections"} ELSE {})
            \cup (IF c.imu_enabled /\ f.imu THEN {"imu"} ELSE {})

\* run, line 626: self.pipeline = self._create_pipeline().  Line 417 calls
\* available_features.get outside the try block of line 418.
CreatePipeline ==
    /\ pc = "create_pipeline"
    /\ IF config.imu_enabled /\ ~HasGet(available_features)
       THEN /\ pc' = "except"
            /\ raised_at' = "create_pipeline"
            /\ UNCHANGED pipeline
       ELSE /\ pc' = "connect"
            /\ pipeline' = Streams(config, available_features)
            /\ UNCHANGED raised_at
    /\ UNCHANGED <<running, config, reconnect_attempts, max_attempts, device, device_info,
                   available_features, queues, dispatch_vars, health_vars, stats,
                   observed, rest_vars, exit_status>>

\* run, lines 629-631: with dai.Device(self.pipeline) as device
Connect ==
    /\ pc = "connect"
    /\ \E connected \in BOOLEAN :
         IF connected
         THEN pc' = "detect" /\ device' = "open" /\ UNCHANGED raised_at
         ELSE pc' = "except" /\ raised_at' = "connect" /\ UNCHANGED device
    /\ UNCHANGED <<running, config, reconnect_attempts, max_attempts, device_info,
                   available_features, pipeline, queues, dispatch_vars, health_vars,
                   stats, observed, rest_vars, exit_status>>

\* _detect_device_features: fills device_info unless the device calls raise (the
\* exception is caught at line 348) and ends without a return statement
detect_device_features(detected) == None

\* run, line 634: self.available_features = self._detect_device_features(device)
Detect ==
    /\ pc = "detect"
    /\ \E detected \in BOOLEAN :
         /\ device_info' = (device_info \/ detected)
         /\ available_features' = detect_device_features(detected)
    /\ pc' = "temperature"
    /\ UNCHANGED <<running, config, reconnect_attempts, max_attempts, device, pipeline,
                   queues, raised_at, dispatch_vars, health_vars, stats, observed, rest_vars,
                   exit_status>>

\* run, lines 638-644: available_features.get("temperature", False); the exception of
\* a None leaves the with block, which closes the device
Temperature ==
    /\ pc = "temperature"
    /\ IF HasGet(available_features)
       THEN pc' = "get_queues" /\ UNCHANGED <<device, raised_at>>
       ELSE pc' = "except" /\ device' = "closed" /\ raised_at' = "features_get"
    /\ UNCHANGED <<running, config, reconnect_attempts, max_attempts, device_info,
                   available_features, pipeline, queues, dispatch_vars, health_vars,
                   stats, observed, rest_vars, exit_status>>

\* the handler with line 671 testing the attempt counter alone
Except_ignores_stop ==
    /\ pc = "except"
    /\ stats.error_count < MaxErrors
    /\ reconnect_attempts' = reconnect_attempts + 1
    /\ stats' = increment_error(stats)
    /\ pc' = IF reconnect_attempts' < max_attempts THEN "sleep" ELSE "stop_monitoring"
    /\ UNCHANGED <<running, config, max_attempts, device, device_info,
                   available_features, pipeline, queues, raised_at, dispatch_vars,
                   health_vars, observed, rest_vars, exit_status>>

\* the handler without the test of line 671: it always waits and retries
Except_always_retries ==
    /\ pc = "except"
    /\ stats.error_count < MaxErrors
    /\ reconnect_attempts' = reconnect_attempts + 1
    /\ stats' = increment_error(stats)
    /\ pc' = "sleep"
    /\ UNCHANGED <<running, config, max_attempts, device, device_info,
                   available_features, pipeline, queues, raised_at, dispatch_vars,
                   health_vars, observed, rest_vars, exit_status>>

\* run, lines 666-676: the handler of every exception of one attempt
Except ==
    /\ pc = "except"
    /\ stats.error_count < MaxErrors
    /\ reconnect_attempts' = reconnect_attempts + 1
    /\ stats' = increment_error(stats)
    /\ pc' = IF reconnect_attempts' < max_attempts /\ running
             THEN "sleep" ELSE "stop_monitoring"
    /\ UNCHANGED <<running, config, max_attempts, device, device_info,
                   available_features, pipeline, queues, raised_at, dispatch_vars,
                   health_vars, observed, rest_vars, exit_status>>

\* run, line 673: time.sleep(reconnect_delay)
Sleep ==
    /\ pc = "sleep"
    /\ pc' = "loop_check"
    /\ UNCHANGED <<running, config, reconnect_attempts, max_attempts, device, device_info,
                   available_features, pipeline, queues, raised_at, dispatch_vars,
                   health_vars, stats, observed, rest_vars, exit_status>>

\* run returning without the call of stop_monitoring
StopMonitoring_skipped ==
    /\ pc = "stop_monitoring"
    /\ pc' = "returned"
    /\ UNCHANGED <<running, config, reconnect_attempts, max_attempts, device, device_info,
                   available_features, pipeline, queues, raised_at, dispatch_vars,
                   health_vars, stats, observed, rest_vars, exit_status>>

\* run, lines 678-679: self.health_monitor.stop_monitoring(), then run returns
StopMonitoring ==
    /\ pc = "stop_monitoring"
    /\ monitor_running' = FALSE
    /\ pc' = "returned"
    /\ UNCHANGED <<running, config, reconnect_attempts, max_attempts, device, device_info,
                   available_features, pipeline, queues, raised_at, dispatch_vars, hpc,
                   status_file, last_tick, stats, observed, rest_vars, exit_status>>

\* main, lines 700-701: daemon.run() returned, main returns and the interpreter exits
\* with status 0; the monitor thread is a daemon thread and ends with it
MainReturn ==
    /\ pc = "returned"
    /\ pc' = "exited"
    /\ exit_status' = 0
    /\ hpc' = "ended"
    /\ UNCHANGED <<running, config, reconnect_attempts, max_attempts, device, device_info,
                   available_features, pipeline, queues, raised_at, dispatch_vars,
                   monitor_running, status_file, last_tick, stats, observed,
                   rest_vars>>

\* _signal_handler (SIGTERM, SIGINT), installed by the constructor
signal_handler ==
    /\ pc \notin {"construct", "exited"}
    /\ running
    /\ running' = FALSE
    /\ UNCHANGED <<pc, config, reconnect_attempts, max_attempts, device, device_info,
                   available_features, pipeline, queues, raised_at, dispatch_vars,
                   health_vars, stats, observed, rest_vars, exit_status>>

\* the files the operator may have put at config_path when SIGHUP arrives: none,
\* a file that is not JSON, JSON that is not an object, or the document of a
\* configuration with a short health check interval and a retry limit of one, with
\* or without persistence
ReloadConfigs ==
    {c \in Configs : /\ c.depth_enabled /\ c.imu_enabled
                     /\ ~c.model_enabled /\ ~c.model_path
                     /\ c.max_reconnect_attempts = 1
                     /\ c.health_check_interval = 5
                     /\ c.max_files = IF c.save_frames THEN 1 ELSE MaxFiles}

ReloadFiles ==
    {Missing, Malformed, Json(Leaf(0))} \cup {Json(Document(c)) : c \in ReloadConfigs}

\* a reload that also ends the connection attempt in progress
reload_config_restarts ==
    /\ pc \notin {"construct", "exited"}
    /\ \E file \in ReloadFiles, saved \in BOOLEAN :
         LET loaded == load_config(DEFAULT_CONFIG, file, saved)
         IN  /\ config' = ConfigOf(loaded.returned)
             /\ config_file' = loaded.file
    /\ pc' = IF pc \in {"run", "stop_monitoring", "returned"} THEN pc ELSE "loop_check"
    /\ device' = "closed"
    /\ UNCHANGED <<running, reconnect_attempts, max_attempts, device_info,
                   available_features, pipeline, queues, raised_at, dispatch_vars,
                   health_vars, stats, observed, exit_status, monitor_config, unit_vars,
                   step_vars>>

\* a reload that also starts the statistics afresh
reload_config_new_statistics ==
    /\ pc \notin {"construct", "exited"}
    /\ \E file \in ReloadFiles, saved \in BOOLEAN :
         LET loaded == load_config(DEFAULT_CONFIG, file, saved)
         IN  /\ config' = ConfigOf(loaded.returned)
             /\ config_file' = loaded.file
    /\ stats' = [stats EXCEPT !.frame_count = 0, !.error_count = 0, !.imu_data_count = 0,
                              !.last_frame_time = 0, !.fps_history = <<>>]
    /\ UNCHANGED <<pc, running, reconnect_attempts, max_attempts, device, device_info,
                   available_features, pipeline, queues, raised_at, dispatch_vars,
                   health_vars, observed, exit_status, monitor_config, unit_vars,
                   step_vars>>

\* _reload_config (SIGHUP), installed by the constructor: self.config becomes a new
\* DepthAIConfig, whose constructor runs load_config on the file as it is now.  The
\* HealthMonitor keeps the DepthAIConfig object it was constructed with.
reload_config ==
    /\ pc \notin {"construct", "exited"}
    /\ \E file \in ReloadFiles, saved \in BOOLEAN :
         LET loaded == load_config(DEFAULT_CONFIG, file, saved)
         IN  /\ config' = ConfigOf(loaded.returned)
             /\ config_file' = loaded.file
    /\ UNCHANGED <<pc, running, reconnect_attempts, max_attempts, device, device_info,
                   available_features, pipeline, queues, raised_at, dispatch_vars,
                   health_vars, stats, observed, exit_status, monitor_config, unit_vars,
                   step_vars>>

\* ---------------------------------------------------------- streaming phase
\* run, lines 646-658: the names asked of device.getOutputQueue
QueueNames(c, f) ==
    {"rgb"} \cup (IF c.depth_enabled THEN {"depth"} ELSE {})
            \cup (IF c.model_enabled THEN {"detections"} ELSE {})
            \cup (IF c.imu_enabled /\ f.imu THEN {"imu"} ELSE {})

\* run, lines 646-658: getOutputQueue raises for a stream the pipeline does not
\* have; the exception leaves the with block, which closes the device
GetQueues ==
    /\ pc = "get_queues"
    /\ IF QueueNames(config, available_features) \subseteq pipeline
       THEN /\ queues' = QueueNames(config, available_features)
            /\ pc' = "reset_attempts"
            /\ UNCHANGED <<device, raised_at>>
       ELSE /\ pc' = "except"
            /\ device' = "closed"
            /\ raised_at' = "get_queues"
            /\ UNCHANGED queues
    /\ UNCHANGED <<running, config, reconnect_attempts, max_attempts, device_info,
                   available_features, pipeline, dispatch_vars, health_vars, stats,
                   observed, rest_vars, exit_status>>

\* the attempt counter left as it is
reset_on_connection_kept(n) == n

\* run, line 661: reconnect_attempts = 0
reset_on_connection(n) == 0

\* run, lines 660-664 and _process_frames, line 456: reset the attempt counter and
\* enter the processing loop with frame_count = 0
ResetAttempts ==
    /\ pc = "reset_attempts"
    /\ reconnect_attempts' = reset_on_connection(reconnect_attempts)
    /\ frame_count' = 0
    /\ pc' = "while_running"
    /\ UNCHANGED <<running, config, max_attempts, device, device_info,
                   available_features, pipeline, queues, raised_at, files, imu_files,
                   writes, clock, logged, health_vars, stats, observed, rest_vars,
                   exit_status>>

\* the device is unplugged or resets while the with block holds it
DeviceLost ==
    /\ device = "open"
    /\ pc \in {"while_running", "poll_rgb", "poll_depth", "poll_detections", "poll_imu",
               "update_frame_stats"}
    /\ device' = "lost"
    /\ UNCHANGED <<pc, running, config, reconnect_attempts, max_attempts, device_info,
                   available_features, pipeline, queues, raised_at, dispatch_vars,
                   health_vars, stats, observed, rest_vars, exit_status>>

\* the wall clock advances; it is read by _save_frame and _save_imu_data only, and
\* is followed while artifacts are saved
Tick ==
    /\ pc \in {"while_running", "poll_rgb", "poll_depth", "poll_detections", "poll_imu",
               "update_frame_stats"}
    /\ config.save_frames
    /\ clock < MaxClock
    /\ clock' = clock + 1
    /\ UNCHANGED <<supervisor_vars, frame_count, files, imu_files, writes, logged,
                   health_vars, stats, observed, rest_vars, exit_status>>

\* ----------------------------------------------------------- artifact store
\* _save_frame, lines 537-539: {frame_type}_{%Y%m%d_%H%M%S}_{frame_count:06d}.jpg
FrameName(frame_type, now, n) ==
    [kind |-> frame_type, ts |-> now \div TicksPerSecond, seq |-> n]

\* _save_imu_data, lines 567-568: imu_{%Y%m%d_%H%M%S_%f}.json
ImuName(now) == [kind |-> "imu", ts |-> now]

\* the directory after a file is written at time t: a new path is the newest entry,
\* an existing path is overwritten and its ctime becomes the newest
WriteFile(dir, name, t) ==
    SelectSeq(dir, LAMBDA f : f.name # name) \o <<[name |-> name, ctime |-> t]>>

\* Python's files[:-max_files]: for max_files = 0 the slice files[:0] is empty
files_to_remove(dir, max_files) ==
    IF max_files = 0 THEN <<>> ELSE SubSeq(dir, 1, Len(dir) - max_files)

\* a sweep that keeps the oldest max_files files
cleanup_keeps_oldest(dir, max_files) ==
    IF Len(dir) > max_files THEN SubSeq(dir, 1, max_files) ELSE dir

\* _cleanup_old_files: dir is sorted(glob("*.jpg"), key=getctime)
cleanup_old_files(dir, max_files) ==
    IF Len(dir) > max_files
    THEN SubSeq(dir, Len(files_to_remove(dir, max_files)) + 1, Len(dir))
    ELSE dir

\* _cleanup_old_files, lines 606-607, when file.unlink() raises after `unlinked`
\* files were removed: the loop ends (handler of line 609) and the rest stay
cleanup_interrupted(dir, unlinked) == SubSeq(dir, unlinked + 1, Len(dir))

\* _save_frame: cv2.imwrite, then _cleanup_old_files(output_dir)
save_frame(dir, name, t, max_files) ==
    cleanup_old_files(WriteFile(dir, name, t), max_files)

\* _save_imu_data, lines 567-568 and 594-595: imu_{%Y%m%d_%H%M%S_%f}.json is
\* written; no retention sweep follows
save_imu_data(dir, name) == dir \cup {name}

\* ------------------------------------------------------------ dispatch loop
\* the position after a poll: the next channel of _process_frames that is in queues
AfterPoll(ch) ==
    IF ch = "rgb" /\ "depth" \in queues THEN "poll_depth"
    ELSE IF ch \in {"rgb", "depth"} /\ "detections" \in queues THEN "poll_detections"
    ELSE IF ch \in {"rgb", "depth", "detections"} /\ "imu" \in queues THEN "poll_imu"
    ELSE "update_frame_stats"

\* the processing loop as while True
WhileRunning_forever ==
    /\ pc = "while_running"
    /\ pc' = "poll_rgb"
    /\ logged' = "none"
    /\ UNCHANGED <<running, config, reconnect_attempts, max_attempts, device, device_info,
                   available_features, pipeline, queues, raised_at, frame_count, files,
                   imu_files, writes, clock, health_vars, stats, observed, rest_vars,
                   exit_status>>

\* _process_frames, line 458: while self.running; when the loop ends the function
\* returns into run, the with block closes the device and run's loop tests again
WhileRunning ==
    /\ pc = "while_running"
    /\ IF running
       THEN pc' = "poll_rgb" /\ UNCHANGED device
       ELSE pc' = "loop_check" /\ device' = "closed"
    /\ logged' = "none"
    /\ UNCHANGED <<running, config, reconnect_attempts, max_attempts, device_info,
                   available_features, pipeline, queues, raised_at, frame_count, files,
                   imu_files, writes, clock, health_vars, stats, observed, rest_vars,
                   exit_status>>

\* the handler without increment_error
process_frames_except_uncounted(s) == s

\* _process_frames, lines 492-494: the handler of an exception of one iteration
process_frames_except(s) == increment_error(s)

\* a step of the iteration raises: lines 492-494 count the error and the while
\* condition is tested again
Raise ==
    /\ stats.error_count < MaxErrors
    /\ stats' = process_frames_except(stats)
    /\ logged' = "Error processing frames"
    /\ pc' = "while_running"

\* the handlers saving whatever the configuration says
save_frames_ignored(c) == TRUE

\* lines 498, 503 and 530: if self.config.config["output"]["save_frames"]
save_frames(c) == c.save_frames

\* _handle_rgb_frame and _handle_depth_frame with a frame in hand: _save_frame when
\* save_frames is set.  cv2.imwrite writes the file, or returns False (the sweep
\* still runs), or raises (caught and logged at lines 546-547, no sweep).  In the
\* sweep an unlink may raise (caught and logged at lines 609-610).  Neither handler
\* calls increment_error.
HandleFrame(frame_type) ==
    IF save_frames(config)
    THEN \E imwrite \in {"written", "false", "raised"} :
           IF imwrite = "raised"
           THEN logged' = "Error saving frame" /\ UNCHANGED <<files, writes>>
           ELSE LET name == FrameName(frame_type, clock, frame_count)
                    dir == IF imwrite = "written"
                           THEN WriteFile(files, name, writes + 1) ELSE files
                    doomed == IF Len(dir) > config.max_files
                              THEN files_to_remove(dir, config.max_files) ELSE <<>>
                IN  /\ imwrite = "written" => writes < MaxSaves
                    /\ writes' = IF imwrite = "written" THEN writes + 1 ELSE writes
                    /\ \E unlinked \in 0..Len(doomed) :
                         IF unlinked = Len(doomed)
                         THEN /\ files' = IF imwrite = "written"
                                          THEN save_frame(files, name, writes',
                                                          config.max_files)
                                          ELSE cleanup_old_files(files, config.max_files)
                              /\ logged' = "none"
                         ELSE /\ files' = cleanup_interrupted(dir, unlinked)
                              /\ logged' = "Error cleaning up files"
    ELSE logged' = "none" /\ UNCHANGED <<files, writes>>

\* _process_frames, lines 461-465, and _handle_rgb_frame: tryGet raises on a lost
\* device; getCvFrame may raise on a malformed frame
PollRgb ==
    /\ pc = "poll_rgb"
    /\ IF device = "lost"
       THEN Raise /\ UNCHANGED <<files, writes>>
       ELSE \E got \in {"none", "frame", "malformed"} :
              IF got = "malformed"
              THEN Raise /\ UNCHANGED <<files, writes>>
              ELSE /\ pc' = AfterPoll("rgb")
                   /\ UNCHANGED stats
                   /\ IF got = "frame"
                      THEN HandleFrame("rgb")
                      ELSE logged' = "none" /\ UNCHANGED <<files, writes>>
    /\ UNCHANGED <<running, config, reconnect_attempts, max_attempts, device, device_info,
                   available_features, pipeline, queues, raised_at, frame_count,
                   imu_files, clock, health_vars, observed, rest_vars, exit_status>>

\* _process_frames, lines 468-472, and _handle_depth_frame: cv2.normalize and
\* applyColorMap run outside _save_frame's try block
PollDepth ==
    /\ pc = "poll_depth"
    /\ IF device = "lost"
       THEN Raise /\ UNCHANGED <<files, writes>>
       ELSE \E got \in {"none", "frame", "malformed"} :
              IF got = "malformed"
              THEN Raise /\ UNCHANGED <<files, writes>>
              ELSE /\ pc' = AfterPoll("depth")
                   /\ UNCHANGED stats
                   /\ IF got = "frame"
                      THEN HandleFrame("depth")
                      ELSE logged' = "none" /\ UNCHANGED <<files, writes>>
    /\ UNCHANGED <<running, config, reconnect_attempts, max_attempts, device, device_info,
                   available_features, pipeline, queues, raised_at, frame_count,
                   imu_files, clock, health_vars, observed, rest_vars, exit_status>>

\* _process_frames, lines 475-478, and _handle_detections: log only
PollDetections ==
    /\ pc = "poll_detections"
    /\ IF device = "lost"
       THEN Raise
       ELSE \E got \in {"none", "detections", "malformed"} :
              IF got = "malformed"
              THEN Raise
              ELSE pc' = AfterPoll("detections") /\ logged' = "none" /\ UNCHANGED stats
    /\ UNCHANGED <<running, config, reconnect_attempts, max_attempts, device, device_info,
                   available_features, pipeline, queues, raised_at, frame_count, files,
                   imu_files, writes, clock, health_vars, observed, rest_vars,
                   exit_status>>

\* _process_frames, lines 481-484, and _handle_imu_data for a message of one packet:
\* update_imu_stats, then _save_imu_data when save_frames is set; a failed write is
\* caught at line 597, where the file holds no statement for the handler
PollImu ==
    /\ pc = "poll_imu"
    /\ IF device = "lost"
       THEN Raise /\ UNCHANGED imu_files
       ELSE \E got \in {"none", "packet", "malformed"} :
              IF got = "malformed"
              THEN Raise /\ UNCHANGED imu_files
              ELSE /\ pc' = AfterPoll("imu")
                   /\ logged' = "none"
                   /\ IF got = "packet"
                      THEN /\ stats.imu_data_count < MaxPackets
                           /\ stats' = update_imu_stats(stats)
                           /\ \E written \in BOOLEAN :
                                imu_files' = IF save_frames(config) /\ written
                                             THEN save_imu_data(imu_files, ImuName(clock))
                                             ELSE imu_files
                      ELSE UNCHANGED <<stats, imu_files>>
    /\ UNCHANGED <<running, config, reconnect_attempts, max_attempts, device, device_info,
                   available_features, pipeline, queues, raised_at, frame_count, files,
                   writes, clock, health_vars, observed, rest_vars, exit_status>>

\* _process_frames, lines 486-490: one frame tick per completed iteration.  The loop
\* sleeps (line 490) between two calls of update_frame_stats, so time.time() is later
\* at each call: the call is followed here one clock tick after the previous one.
UpdateFrameStats ==
    /\ pc = "update_frame_stats"
    /\ stats.frame_count < MaxFrames
    /\ stats' = update_frame_stats(stats, stats.last_frame_time + 1)
    /\ frame_count' = frame_count + 1
    /\ logged' = "none"
    /\ pc' = "while_running"
    /\ UNCHANGED <<running, config, reconnect_attempts, max_attempts, device, device_info,
                   available_features, pipeline, queues, raised_at, files, imu_files,
                   writes, clock, health_vars, observed, rest_vars, exit_status>>

\* ------------------------------------------------------ health monitor thread
\* _monitor_loop, line 193: while self.running
HealthCheck ==
    /\ hpc = "while_running"
    /\ hpc' = IF monitor_running THEN "update_status" ELSE "ended"
    /\ UNCHANGED <<supervisor_vars, dispatch_vars, monitor_running, status_file,
                   last_tick, stats, observed, rest_vars, exit_status>>

\* a failed tick whose exception no handler catches: the thread ends
update_status_uncaught == "ended"

\* _update_status, lines 215-216, and _monitor_loop, lines 196-198: the exception of a
\* tick is caught and logged, _update_status returns and the loop goes on to its sleep
update_status_except == "sleep"

\* _update_status, lines 203-212: take the snapshot, evaluate the health, build the
\* document and open(self.status_file, 'w'), which creates the file or truncates it to
\* no content; an exception of any of these steps is caught at line 215
HealthOpen ==
    /\ hpc = "update_status"
    /\ \E opened \in BOOLEAN :
         IF opened
         THEN /\ hpc' = "dump"
              /\ status_file' = [exists |-> TRUE, keys |-> 0]
              /\ UNCHANGED last_tick
         ELSE /\ hpc' = update_status_except
              /\ last_tick' = "failed"
              /\ UNCHANGED status_file
    /\ UNCHANGED <<supervisor_vars, dispatch_vars, monitor_running, stats, observed,
                   rest_vars, exit_status>>

\* _update_status, line 213: json.dump writes the document in chunks, key after key;
\* the file is closed after the last one.  A chunk that cannot be serialized or
\* written raises: the with block closes the file as far as it was written and the
\* exception is caught at line 215.
HealthDump ==
    /\ hpc = "dump"
    /\ \E dumped \in BOOLEAN :
         IF dumped
         THEN /\ status_file' = [status_file EXCEPT !.keys = @ + 1]
              /\ hpc' = IF status_file'.keys = Len(StatusKeys) THEN "sleep" ELSE "dump"
              /\ last_tick' = IF status_file'.keys = Len(StatusKeys)
                              THEN "written" ELSE last_tick
         ELSE /\ hpc' = update_status_except
              /\ last_tick' = "failed"
              /\ UNCHANGED status_file
    /\ UNCHANGED <<supervisor_vars, dispatch_vars, monitor_running, stats, observed,
                   rest_vars, exit_status>>

\* _monitor_loop, line 196: time.sleep(self.config.config["service"]
\* ["health_check_interval"]), read from the configuration object the monitor was
\* constructed with
health_check_interval == monitor_config.health_check_interval

HealthSleep ==
    /\ hpc = "sleep"
    /\ hpc' = "while_running"
    /\ UNCHANGED <<supervisor_vars, dispatch_vars, monitor_running, status_file,
                   last_tick, stats, observed, rest_vars, exit_status>>

\* --------------------------------------------------------- the status reader
\* DepthAIClient.get_status: None with a warning when the file is missing; json.load
\* of the content otherwise, which fails on an empty or cut-off document
get_status(f) ==
    IF ~f.exists THEN "missing"
    ELSE IF f.keys = Len(StatusKeys) THEN "complete"
    ELSE "torn"

ClientGetStatus ==
    /\ observed' = get_status(status_file)
    /\ observed' # observed
    /\ UNCHANGED <<supervisor_vars, dispatch_vars, health_vars, stats, exit_status,
                   rest_vars>>

\* ---------------------------------------------------------- specifications
\* the configurations of the whole-process specification: the retry limit and
\* imu_enabled vary, the other fields have the values of DEFAULT_CONFIG
SupervisorConfigs ==
    {c \in Configs : /\ c.depth_enabled /\ ~c.model_enabled /\ ~c.model_path
                     /\ ~c.save_frames /\ c.max_files = MaxFiles
                     /\ c.health_check_interval = 30}

\* the capability dictionaries _detect_device_features builds, lines 305-344:
\* temperature = imu
DetectedFeatures ==
    {[none |-> FALSE, imu |-> i, temperature |-> i] : i \in BOOLEAN}

\* the configurations of the streaming specification: every configuration of the
\* control flow without persistence, and the persistence configurations (the
\* largest retry limit) that save images of one or two kinds under every max_files,
\* or rgb images and sensor packets under max_files = 1, or rgb images next to a
\* detection network under max_files = 1
StreamConfigs ==
    {c \in Configs :
        /\ c.health_check_interval = 30
        /\ c.max_reconnect_attempts >= 1
        /\ (c.model_path => c.model_enabled)
        /\ IF c.save_frames
           THEN /\ c.max_reconnect_attempts = MaxAttempts
                /\ c.imu_enabled => (~c.depth_enabled /\ c.max_files = 1)
                /\ c.model_enabled => /\ c.model_path
                                      /\ ~c.depth_enabled /\ ~c.imu_enabled
                                      /\ c.max_files = 1
           ELSE c.max_files = MaxFiles}

\* the capability dictionaries of the streaming specification: every dictionary
\* without persistence; with persistence, the device has an IMU exactly when
\* imu_enabled asks for one
StreamFeatures(c) ==
    {f \in DetectedFeatures : c.save_frames => (f.imu = c.imu_enabled)}

\* DepthAIStats.__init__
InitStats ==
    [frame_count |-> 0, error_count |-> 0, imu_data_count |-> 0,
     last_frame_time |-> 0, fps_history |-> <<>>]

\* no call of update_frame_stats was made, no verdict was computed
NoCalls == [total |-> 0, repeated |-> 0, slow |-> 0, raised |-> FALSE]
NoVerdict == [status |-> "none", issues |-> <<>>]

\* no sweep has taken a listing, no snapshot was taken
NoListing == [taken |-> <<>>, doomed |-> <<>>, created |-> {}]
NoSnapshot == [taken |-> FALSE, total_frames |-> 0, last_frame_time |-> 0, window |-> 0]

\* a dictionary without keys: no document is being built, none was written
NoDocument == [key \in {} |-> key]

\* no sweep and no call of a statistics method is in progress
StepIdle ==
    /\ listing = NoListing
    /\ lock = "free"
    /\ status_stats = NoSnapshot
    /\ call_time = 0
    /\ status = NoDocument
    /\ published = NoDocument

\* no method is exercised on its own
UnitIdle ==
    /\ default = DEFAULT_CONFIG
    /\ user = Map(<<>>)
    /\ result = [op |-> "none"]
    /\ calls = NoCalls
    /\ health = NoVerdict
    /\ StepIdle

\* the process when main() is entered
Init ==
    /\ pc = "construct"
    /\ running = TRUE
    /\ config \in SupervisorConfigs
    /\ reconnect_attempts = 0
    /\ max_attempts = 0
    /\ device = "closed"
    /\ device_info = FALSE
    /\ available_features = InitialFeatures
    /\ pipeline = {}
    /\ queues = {}
    /\ raised_at = "none"
    /\ stats = InitStats
    /\ frame_count = 0
    /\ files = <<>>
    /\ imu_files = {}
    /\ writes = 0
    /\ clock = 0
    /\ logged = "none"
    /\ hpc = "not_started"
    /\ monitor_running = TRUE
    /\ status_file = [exists |-> FALSE, keys |-> 0]
    /\ last_tick = "none"
    /\ observed = "nothing"
    /\ exit_status = -1
    /\ config_file = Json(Document(config))
    /\ monitor_config = config
    /\ UnitIdle

Next ==
    \/ Construct
    \/ RunStart
    \/ LoopCheck
    \/ CreatePipeline
    \/ Connect
    \/ Detect
    \/ Temperature
    \/ Except
    \/ Sleep
    \/ StopMonitoring
    \/ MainReturn
    \/ signal_handler
    \/ HealthCheck
    \/ HealthOpen
    \/ HealthDump
    \/ HealthSleep
    \/ ClientGetStatus

Spec == Init /\ [][Next]_vars

\* run at line 646: the device is open, the pipeline was built with the features
\* assumed before this detection, earlier attempts may have failed (at line 629,
\* each counted by the handler of line 666)
InitStream ==
    /\ pc = "get_queues"
    /\ running = TRUE
    /\ config \in StreamConfigs
    /\ max_attempts = config.max_reconnect_attempts
    /\ reconnect_attempts \in IF config.save_frames THEN {0} ELSE 0..(max_attempts - 1)
    /\ device = "open"
    /\ device_info = TRUE
    /\ available_features \in StreamFeatures(config)
    /\ \E assumed \in StreamFeatures(config) : pipeline = Streams(config, assumed)
    /\ queues = {}
    /\ raised_at = IF reconnect_attempts > 0 THEN "connect" ELSE "none"
    /\ stats = [InitStats EXCEPT !.error_count = reconnect_attempts]
    /\ frame_count = 0
    /\ files = <<>>
    /\ imu_files = {}
    /\ writes = 0
    /\ clock = 0
    /\ logged = "none"
    /\ hpc = "sleep"
    /\ monitor_running = TRUE
    /\ status_file = [exists |-> FALSE, keys |-> 0]
    /\ last_tick = "none"
    /\ observed = "nothing"
    /\ exit_status = -1
    /\ config_file = Json(Document(config))
    /\ monitor_config = config
    /\ UnitIdle

NextStream ==
    \/ GetQueues
    \/ ResetAttempts
    \/ WhileRunning
    \/ PollRgb
    \/ PollDepth
    \/ PollDetections
    \/ PollImu
    \/ UpdateFrameStats
    \/ DeviceLost
    \/ Tick
    \/ signal_handler
    \/ LoopCheck
    \/ CreatePipeline
    \/ Connect
    \/ Detect
    \/ Temperature
    \/ Except
    \/ Sleep
    \/ StopMonitoring
    \/ MainReturn

SpecStream == InitStream /\ [][NextStream]_vars

\* the configurations the streaming phase starts with when a reload is to follow:
\* the largest retry limit and the rgb stream alone, without persistence
ReloadStartConfigs ==
    {c \in StreamConfigs : /\ c.max_reconnect_attempts = MaxAttempts
                           /\ ~c.depth_enabled /\ ~c.model_enabled /\ ~c.imu_enabled
                           /\ ~c.save_frames}

\* run at line 646 as in InitStream, in a process that receives SIGHUP
InitReload == InitStream /\ config \in ReloadStartConfigs

NextReload ==
    \/ reload_config
    \/ GetQueues
    \/ ResetAttempts
    \/ WhileRunning
    \/ PollRgb
    \/ UpdateFrameStats
    \/ DeviceLost
    \/ Tick
    \/ signal_handler
    \/ LoopCheck
    \/ CreatePipeline
    \/ Connect
    \/ Detect
    \/ Temperature
    \/ Except
    \/ Sleep
    \/ StopMonitoring
    \/ MainReturn

SpecReload == InitReload /\ [][NextReload]_vars

\* ------------------------------------------------ the process under fairness
\* the steps of the main thread, from the constructor to the return of main
Supervisor ==
    \/ Construct
    \/ RunStart
    \/ LoopCheck
    \/ CreatePipeline
    \/ Connect
    \/ Detect
    \/ Temperature
    \/ Except
    \/ Sleep
    \/ StopMonitoring
    \/ MainReturn

\* the steps of the monitor thread
Evaluator ==
    \/ HealthCheck
    \/ HealthOpen
    \/ HealthDump
    \/ HealthSleep

NextFair ==
    \/ Supervisor
    \/ Evaluator
    \/ signal_handler
    \/ ClientGetStatus

\* Both threads are threads of one interpreter, which hands the interpreter lock
\* from one to the other at every switch interval and whenever a thread blocks;
\* the device calls return or raise, open and json.dump return or raise, and both
\* time.sleep calls return: a step of either thread that stays possible is taken.
SpecFair == Init /\ [][NextFair]_vars /\ WF_vars(Supervisor) /\ WF_vars(Evaluator)

\* -------------------------------------------------- termination under fairness
\* the configurations shutdown is followed with: every retry limit, with and without
\* the IMU, the rgb stream otherwise, without persistence
ShutdownConfigs ==
    {c \in StreamConfigs : ~c.save_frames /\ ~c.depth_enabled /\ ~c.model_enabled}

\* run at line 646 as in InitStream
InitShutdown == InitStream /\ config \in ShutdownConfigs

\* the steps of the main thread from line 646 on
MainThread ==
    \/ GetQueues
    \/ ResetAttempts
    \/ WhileRunning
    \/ PollRgb
    \/ PollImu
    \/ UpdateFrameStats
    \/ LoopCheck
    \/ CreatePipeline
    \/ Connect
    \/ Detect
    \/ Temperature
    \/ Except
    \/ Sleep
    \/ StopMonitoring
    \/ MainReturn

NextShutdown ==
    \/ MainThread
    \/ DeviceLost
    \/ signal_handler

\* The main thread is a thread of the interpreter that is always scheduled again;
\* tryGet is non-blocking, the device calls of an attempt return or raise, and
\* time.sleep returns after its delay (a signal handler that returns does not end
\* it early and does not prolong it): a step of the main thread that stays possible
\* is taken.
SpecShutdown == InitShutdown /\ [][NextShutdown]_vars /\ WF_vars(MainThread)

\* --------------------------------------------- the retention sweep step by step
\* the names of the files of a directory
Names(dir) == {dir[i].name : i \in 1..Len(dir)}

\* the image names written while a sweep is followed
SweepNames == {FrameName("rgb", 0, n) : n \in 0..(MaxFiles + 1)}

\* output_directory when _cleanup_old_files is entered: up to MaxFiles + 1 images,
\* the oldest first
SweepDirectories ==
    {[i \in 1..k |-> [name |-> FrameName("rgb", 0, i - 1), ctime |-> i]] :
        k \in 0..(MaxFiles + 1)}

\* _save_frame at line 545, after cv2.imwrite: _cleanup_old_files is entered with
\* persistence on, under every max_files
InitSweep ==
    /\ pc = "cleanup_list"
    /\ running = TRUE
    /\ config \in {c \in StreamConfigs :
                        c.save_frames /\ ~c.depth_enabled /\ ~c.imu_enabled}
    /\ max_attempts = config.max_reconnect_attempts
    /\ reconnect_attempts = 0
    /\ device = "open"
    /\ device_info = TRUE
    /\ available_features \in StreamFeatures(config)
    /\ pipeline = Streams(config, available_features)
    /\ queues = QueueNames(config, available_features)
    /\ raised_at = "none"
    /\ stats = InitStats
    /\ frame_count = 0
    /\ files \in SweepDirectories
    /\ imu_files = {}
    /\ writes = Len(files)
    /\ clock = 0
    /\ logged = "none"
    /\ hpc = "sleep"
    /\ monitor_running = TRUE
    /\ status_file = [exists |-> FALSE, keys |-> 0]
    /\ last_tick = "none"
    /\ observed = "nothing"
    /\ exit_status = -1
    /\ config_file = Json(Document(config))
    /\ monitor_config = config
    /\ UnitIdle

\* _cleanup_old_files, lines 600-605: the listing sorted by ctime and the slice of
\* it that is to be removed
CleanupList ==
    /\ pc = "cleanup_list"
    /\ listing' = [taken |-> files,
                   doomed |-> IF Len(files) > config.max_files
                              THEN files_to_remove(files, config.max_files) ELSE <<>>,
                   created |-> {}]
    /\ pc' = "cleanup_unlink"
    /\ UNCHANGED <<running, config, reconnect_attempts, max_attempts, device, device_info,
                   available_features, pipeline, queues, raised_at, dispatch_vars,
                   health_vars, stats, observed, exit_status, config_vars, unit_vars,
                   lock, status_stats, call_time,
                   document_vars>>

\* a loop that lists the directory again at every pass and unlinks its last entry
unlink_target_relisted(dir, l) ==
    IF dir = <<>> THEN Head(l.doomed).name ELSE dir[Len(dir)].name

\* _cleanup_old_files, lines 606-607: for file in files_to_remove: file.unlink()
unlink_target(dir, l) == Head(l.doomed).name

\* one pass of the loop of lines 606-607, or its end; an unlink that raises (the
\* path is gone, or may not be removed) ends the sweep at line 609
CleanupUnlink ==
    /\ pc = "cleanup_unlink"
    /\ IF listing.doomed = <<>>
       THEN pc' = "swept" /\ logged' = "none" /\ UNCHANGED <<files, listing>>
       ELSE \E unlinked \in BOOLEAN :
              LET name == unlink_target(files, listing)
              IN  IF unlinked /\ name \in Names(files)
                  THEN /\ files' = SelectSeq(files, LAMBDA f : f.name # name)
                       /\ listing' = [listing EXCEPT !.doomed = Tail(@)]
                       /\ UNCHANGED <<pc, logged>>
                  ELSE /\ pc' = "swept"
                       /\ logged' = "Error cleaning up files"
                       /\ UNCHANGED <<files, listing>>
    /\ UNCHANGED <<running, config, reconnect_attempts, max_attempts, device, device_info,
                   available_features, pipeline, queues, raised_at, frame_count,
                   imu_files, writes, clock, health_vars, stats, observed, exit_status,
                   config_vars, unit_vars, lock, status_stats, call_time,
                   document_vars>>

\* an image file is written into output_directory while the sweep is in its loop (by
\* another writer of the directory: the daemon writes from the thread that sweeps);
\* a path that exists is overwritten, a path that does not is a file created after
\* the listing was taken
OtherWrite ==
    /\ pc = "cleanup_unlink"
    /\ writes < Len(listing.taken) + MaxSaves
    /\ \E name \in SweepNames :
         /\ files' = WriteFile(files, name, writes + 1)
         /\ listing' = [listing EXCEPT
                           !.created = IF name \in Names(files) THEN @ ELSE @ \cup {name}]
    /\ writes' = writes + 1
    /\ UNCHANGED <<supervisor_vars, frame_count, imu_files, clock, logged, health_vars,
                   stats, observed, exit_status, config_vars, unit_vars, lock,
                   status_stats, call_time,
                   document_vars>>

NextSweep ==
    \/ CleanupList
    \/ CleanupUnlink
    \/ OtherWrite

SpecSweep == InitSweep /\ [][NextSweep]_vars

\* ------------------------------------- the statistics lock, statement by statement
\* the statistics after FpsWindow + 1 frames one tick apart: the window is full
WindowFull ==
    [InitStats EXCEPT !.frame_count = FpsWindow + 1,
                      !.last_frame_time = FpsWindow + 1,
                      !.fps_history = [i \in 1..FpsWindow |-> Rate(1)]]

\* the configurations the lock is followed with: the rgb stream and the IMU, one
\* connection attempt, without persistence
LockConfigs ==
    {c \in ShutdownConfigs : c.imu_enabled /\ c.max_reconnect_attempts = 1}

\* run at line 646 as in InitStream on a device with an IMU, with fresh statistics
\* or with a full window
InitLock ==
    /\ pc = "get_queues"
    /\ running = TRUE
    /\ config \in LockConfigs
    /\ max_attempts = config.max_reconnect_attempts
    /\ reconnect_attempts = 0
    /\ device = "open"
    /\ device_info = TRUE
    /\ available_features \in {f \in StreamFeatures(config) : f.imu}
    /\ \E assumed \in StreamFeatures(config) : pipeline = Streams(config, assumed)
    /\ queues = {}
    /\ raised_at = "none"
    /\ stats \in {InitStats, WindowFull}
    /\ frame_count = 0
    /\ files = <<>>
    /\ imu_files = {}
    /\ writes = 0
    /\ clock = 0
    /\ logged = "none"
    /\ hpc = "sleep"
    /\ monitor_running = TRUE
    /\ status_file = [exists |-> FALSE, keys |-> 0]
    /\ last_tick = "none"
    /\ observed = "nothing"
    /\ exit_status = -1
    /\ config_file = Json(Document(config))
    /\ monitor_config = config
    /\ UnitIdle

\* the positions of the main thread inside a with self.lock block
MainLocked == {"error_add", "error_release", "imu_add", "imu_release", "frame_time",
               "frame_trim", "frame_add", "frame_last", "frame_release"}

\* with self.lock (lines 116, 129, 134) in the main thread: the thread waits until
\* the lock is free and takes it
MainAcquire ==
    /\ pc \in {"increment_error", "update_imu_stats", "update_frame_stats"}
    /\ pc = "update_frame_stats" => frame_count < MaxFrames
    /\ lock = "free"
    /\ lock' = "main"
    /\ pc' = CASE pc = "increment_error" -> "error_add"
                [] pc = "update_imu_stats" -> "imu_add"
                [] pc = "update_frame_stats" -> "frame_time"
    /\ UNCHANGED <<running, config, reconnect_attempts, max_attempts, device, device_info,
                   available_features, pipeline, queues, raised_at, dispatch_vars,
                   health_vars, stats, observed, exit_status, config_vars, unit_vars,
                   listing, status_stats, call_time,
                   document_vars>>

\* the end of a with self.lock block in the main thread: the lock is released.
\* increment_error returns into the handler of run (lines 671-676) or into the one
\* of _process_frames, which is followed by the loop test; update_imu_stats returns
\* into _handle_imu_data; update_frame_stats is followed by lines 487-490
MainRelease ==
    /\ pc \in {"error_release", "imu_release", "frame_release"}
    /\ lock' = "free"
    /\ pc' = CASE pc = "error_release" /\ device = "closed" ->
                    IF reconnect_attempts < max_attempts /\ running
                    THEN "sleep" ELSE "stop_monitoring"
                [] pc = "error_release" /\ device # "closed" -> "while_running"
                [] pc = "imu_release" -> "update_frame_stats"
                [] pc = "frame_release" -> "while_running"
    /\ frame_count' = IF pc = "frame_release" THEN frame_count + 1 ELSE frame_count
    /\ UNCHANGED <<running, config, reconnect_attempts, max_attempts, device, device_info,
                   available_features, pipeline, queues, raised_at, files, imu_files,
                   writes, clock, logged, health_vars, stats, observed, exit_status,
                   config_vars, unit_vars, listing, status_stats, call_time,
                   document_vars>>

\* run, lines 666-669: the handler counts the attempt and calls increment_error
ExceptEnter ==
    /\ pc = "except"
    /\ stats.error_count < MaxErrors
    /\ reconnect_attempts' = reconnect_attempts + 1
    /\ pc' = "increment_error"
    /\ UNCHANGED <<running, config, max_attempts, device, device_info,
                   available_features, pipeline, queues, raised_at, dispatch_vars,
                   health_vars, stats, observed, exit_status, rest_vars>>

\* increment_error, line 135, and update_imu_stats, line 130, with the lock held
CounterAdd ==
    /\ pc \in {"error_add", "imu_add"}
    /\ stats' = IF pc = "error_add" THEN increment_error(stats)
                ELSE update_imu_stats(stats)
    /\ pc' = IF pc = "error_add" THEN "error_release" ELSE "imu_release"
    /\ UNCHANGED <<running, config, reconnect_attempts, max_attempts, device, device_info,
                   available_features, pipeline, queues, raised_at, dispatch_vars,
                   health_vars, observed, exit_status, rest_vars>>

\* an exception that leaves a with self.lock block while the lock stays held
with_exit_on_raise_held == "main"

\* an exception leaves a with self.lock block: the lock is released
with_exit_on_raise == "free"

\* update_frame_stats, lines 117-120, with the lock held: time.time() is the time of
\* the previous call or later; the division raises for an equal time and the
\* exception leaves the with block for the handler of _process_frames
FrameTime ==
    /\ pc = "frame_time"
    /\ \E t \in {stats.last_frame_time, stats.last_frame_time + 1} \ {0} :
         /\ call_time' = t
         /\ IF ZeroDivisionError(stats, t)
            THEN /\ stats.error_count < MaxErrors
                 /\ lock' = with_exit_on_raise
                 /\ logged' = "Error processing frames"
                 /\ pc' = "increment_error"
                 /\ UNCHANGED stats
            ELSE /\ stats' = IF stats.last_frame_time > 0
                             THEN [stats EXCEPT !.fps_history =
                                      Append(@, Rate(t - stats.last_frame_time))]
                             ELSE stats
                 /\ pc' = IF stats.last_frame_time > 0 THEN "frame_trim" ELSE "frame_add"
                 /\ UNCHANGED <<lock, logged>>
    /\ UNCHANGED <<running, config, reconnect_attempts, max_attempts, device, device_info,
                   available_features, pipeline, queues, raised_at, frame_count, files,
                   imu_files, writes, clock, health_vars, observed, exit_status,
                   config_vars, unit_vars, listing, status_stats,
                   document_vars>>

\* update_frame_stats, lines 121-125, with the lock held, a statement at a time
FrameStep ==
    /\ pc \in {"frame_trim", "frame_add", "frame_last"}
    /\ stats' = CASE pc = "frame_trim" ->
                       IF Len(stats.fps_history) > FpsWindow
                       THEN [stats EXCEPT !.fps_history = Tail(@)] ELSE stats
                  [] pc = "frame_add" -> [stats EXCEPT !.frame_count = @ + 1]
                  [] pc = "frame_last" -> [stats EXCEPT !.last_frame_time = call_time]
    /\ pc' = CASE pc = "frame_trim" -> "frame_add"
                [] pc = "frame_add" -> "frame_last"
                [] pc = "frame_last" -> "frame_release"
    /\ UNCHANGED <<running, config, reconnect_attempts, max_attempts, device, device_info,
                   available_features, pipeline, queues, raised_at, dispatch_vars,
                   health_vars, observed, exit_status, rest_vars>>

\* _process_frames, lines 461-484, down to the calls of the statistics: a poll that
\* raises goes to the handler (lines 492-494), a sensor packet to update_imu_stats
PollRecord ==
    /\ pc \in {"poll_rgb", "poll_imu"}
    /\ \E got \in {"none", "record", "malformed"} :
         CASE got = "malformed" ->
                /\ stats.error_count < MaxErrors
                /\ logged' = "Error processing frames"
                /\ pc' = "increment_error"
           [] got = "record" /\ pc = "poll_imu" ->
                /\ stats.imu_data_count < MaxPackets
                /\ logged' = "none"
                /\ pc' = "update_imu_stats"
           [] OTHER ->
                /\ logged' = "none"
                /\ pc' = AfterPoll(IF pc = "poll_rgb" THEN "rgb" ELSE "imu")
    /\ UNCHANGED <<running, config, reconnect_attempts, max_attempts, device, device_info,
                   available_features, pipeline, queues, raised_at, frame_count, files,
                   imu_files, writes, clock, health_vars, stats, observed, exit_status,
                   rest_vars>>

\* get_stats called at every tick without the lock
GetStatsAcquire_unlocked ==
    /\ hpc = "update_status"
    /\ hpc' = "get_stats"
    /\ UNCHANGED <<supervisor_vars, dispatch_vars, monitor_running, status_file,
                   last_tick, stats, observed, exit_status, rest_vars>>

\* _update_status, line 203, and get_stats, line 151: with self.lock in the monitor
\* thread
GetStatsAcquire ==
    /\ hpc = "update_status"
    /\ lock = "free"
    /\ lock' = "monitor"
    /\ hpc' = "get_stats"
    /\ UNCHANGED <<supervisor_vars, dispatch_vars, monitor_running, status_file,
                   last_tick, stats, observed, exit_status, config_vars, unit_vars,
                   listing, status_stats, call_time,
                   document_vars>>

\* get_stats, lines 152-167: the dictionary is built from the fields
GetStatsRead ==
    /\ hpc = "get_stats"
    /\ status_stats' = [taken |-> TRUE,
                        total_frames |-> get_stats(stats).total_frames,
                        last_frame_time |-> stats.last_frame_time,
                        window |-> Len(stats.fps_history)]
    /\ hpc' = "get_stats_release"
    /\ UNCHANGED <<supervisor_vars, dispatch_vars, monitor_running, status_file,
                   last_tick, stats, observed, exit_status, config_vars, unit_vars,
                   listing, lock, call_time,
                   document_vars>>

\* the end of the with block of get_stats
GetStatsRelease ==
    /\ hpc = "get_stats_release"
    /\ lock' = "free"
    /\ hpc' = "publish"
    /\ UNCHANGED <<supervisor_vars, dispatch_vars, monitor_running, status_file,
                   last_tick, stats, observed, exit_status, config_vars, unit_vars,
                   listing, status_stats, call_time,
                   document_vars>>

\* _update_status, lines 204-216: the document is written, or the write fails and
\* the exception is caught; line 196 sleeps after either
PublishStatus ==
    /\ hpc = "publish"
    /\ \E written \in BOOLEAN :
         /\ status_file' = IF written THEN [exists |-> TRUE, keys |-> Len(StatusKeys)]
                           ELSE status_file
         /\ last_tick' = IF written THEN "written" ELSE "failed"
    /\ hpc' = "sleep"
    /\ UNCHANGED <<supervisor_vars, dispatch_vars, monitor_running, stats, observed,
                   exit_status, rest_vars>>

\* the steps of the main thread from line 646 to the end of run, the statistics
\* calls a statement at a time
MainLockThread ==
    \/ GetQueues
    \/ ResetAttempts
    \/ WhileRunning
    \/ PollRecord
    \/ MainAcquire
    \/ CounterAdd
    \/ FrameTime
    \/ FrameStep
    \/ MainRelease
    \/ LoopCheck
    \/ ExceptEnter
    \/ StopMonitoring
    \/ MainReturn

\* the steps of the monitor thread, get_stats a statement at a time
MonitorLockThread ==
    \/ HealthCheck
    \/ GetStatsAcquire
    \/ GetStatsRead
    \/ GetStatsRelease
    \/ PublishStatus
    \/ HealthSleep

NextLock ==
    \/ MainLockThread
    \/ MonitorLockThread
    \/ signal_handler

\* Both threads are always scheduled again and every call outside the lock returns
\* or raises, so a step that stays possible is taken (WF).  A thread that waits for
\* the lock is woken when it is released, and the thread that released it sleeps
\* (line 490, line 196) before it asks again: a waiting thread that finds the lock
\* free again and again takes it (SF).
SpecLock ==
    /\ InitLock
    /\ [][NextLock]_vars
    /\ WF_vars(MainLockThread)
    /\ WF_vars(MonitorLockThread)
    /\ SF_vars(MainAcquire)
    /\ SF_vars(GetStatsAcquire)

\* ------------------------------------------- the configuration store on its own
\* the documents _merge_config is exercised with: maps of up to three levels over the
\* keys camera and service, fps and res, width, with the value v at every leaf
PartialFunctions(keys, values) == UNION {[K -> values] : K \in SUBSET keys}

ResValues(v) == {Leaf(v)} \cup {Map(f) : f \in PartialFunctions({"width"}, {Leaf(v)})}

SectionValues(v) ==
    {Leaf(v)} \cup
    {Map(f) : f \in {g \in PartialFunctions({"fps", "res"}, {Leaf(v)} \cup ResValues(v)) :
                        "fps" \in DOMAIN g => g["fps"] = Leaf(v)}}

Documents(v) == {Map(f) : f \in PartialFunctions({"camera", "service"}, SectionValues(v))}

\* the process before main() is entered, with the built-in configuration
Unstarted ==
    /\ pc = "construct"
    /\ running = TRUE
    /\ config = ConfigOf(DEFAULT_CONFIG)
    /\ reconnect_attempts = 0
    /\ max_attempts = 0
    /\ device = "closed"
    /\ device_info = FALSE
    /\ available_features = InitialFeatures
    /\ pipeline = {}
    /\ queues = {}
    /\ raised_at = "none"
    /\ frame_count = 0
    /\ files = <<>>
    /\ imu_files = {}
    /\ writes = 0
    /\ clock = 0
    /\ logged = "none"
    /\ hpc = "not_started"
    /\ monitor_running = TRUE
    /\ status_file = [exists |-> FALSE, keys |-> 0]
    /\ last_tick = "none"
    /\ observed = "nothing"
    /\ exit_status = -1
    /\ monitor_config = config

process_vars == <<supervisor_vars, dispatch_vars, health_vars, stats, observed,
                  exit_status, monitor_config>>

\* _merge_config and load_config with every default document, every user document
\* and every state of the file at config_path
InitConfig ==
    /\ Unstarted
    /\ stats = InitStats
    /\ default \in Documents(30)
    /\ user \in Documents(60)
    /\ config_file \in {Missing, Malformed, Json(Leaf(60)), Json(user)}
    /\ result = [op |-> "none"]
    /\ calls = NoCalls
    /\ health = NoVerdict
    /\ StepIdle

\* result = self._merge_config(default, user)
MergeConfig ==
    /\ result.op = "none"
    /\ result' = [op |-> "merge", returned |-> merge_config(default, user)]
    /\ UNCHANGED <<process_vars, config_file, default, user, calls, health, step_vars>>

\* result = self.load_config() with DEFAULT_CONFIG = default
LoadConfig ==
    /\ result.op = "none"
    /\ \E saved \in BOOLEAN :
         LET loaded == load_config(default, config_file, saved)
         IN  /\ result' = [op |-> "load", returned |-> loaded.returned,
                           before |-> config_file, saved |-> saved]
             /\ config_file' = loaded.file
    /\ UNCHANGED <<process_vars, default, user, calls, health, step_vars>>

NextConfig ==
    \/ MergeConfig
    \/ LoadConfig

SpecConfig == InitConfig /\ [][NextConfig]_vars

\* ----------------------------------------- the statistics aggregator on its own
InitStatsAlone ==
    /\ Unstarted
    /\ stats = InitStats
    /\ config_file = Json(Document(config))
    /\ UnitIdle

\* self.stats.update_frame_stats() at a time that is elapsed ticks after the
\* previous call (the first call is made at time 1)
RecordFrame ==
    /\ calls.total < MaxCalls
    /\ \E elapsed \in 0..MaxElapsed :
         LET first == stats.last_frame_time = 0
             current_time == IF first THEN 1 ELSE stats.last_frame_time + elapsed
             repeated == ~first /\ elapsed = 0
             slow == ~first /\ elapsed > 1
         IN  /\ first => elapsed = 0
             /\ repeated => calls.repeated < MaxRepeats
             /\ slow => calls.slow < MaxSlow
             /\ stats' = update_frame_stats(stats, current_time)
             /\ calls' = [total |-> calls.total + 1,
                          repeated |-> calls.repeated + (IF repeated THEN 1 ELSE 0),
                          slow |-> calls.slow + (IF slow THEN 1 ELSE 0),
                          raised |-> ZeroDivisionError(stats, current_time)]
    /\ UNCHANGED <<supervisor_vars, dispatch_vars, health_vars, observed, exit_status,
                   config_vars, default, user, result, health, step_vars>>

NextStats == RecordFrame

SpecStats == InitStatsAlone /\ [][NextStats]_vars

\* ---------------------------------------------- the health evaluator on its own
\* _check_health with the frame rate tested also before the first frame
check_health_without_grace(snapshot) ==
    LET low == IF BelowOne(snapshot.current_fps)
               THEN <<"Low or no frame rate">> ELSE <<>>
        high == IF snapshot.total_frames > 0
                   /\ 10 * snapshot.error_count > snapshot.total_frames
                THEN <<"High error rate">> ELSE <<>>
        issues == low \o high
    IN  [status |-> IF issues # <<>> THEN "degraded" ELSE "healthy", issues |-> issues]

\* _check_health with the error rate tested by >= instead of >
check_health_at_least(snapshot) ==
    LET low == IF BelowOne(snapshot.current_fps) /\ snapshot.total_frames > 0
               THEN <<"Low or no frame rate">> ELSE <<>>
        high == IF snapshot.total_frames > 0
                   /\ 10 * snapshot.error_count >= snapshot.total_frames
                THEN <<"High error rate">> ELSE <<>>
        issues == low \o high
    IN  [status |-> IF issues # <<>> THEN "degraded" ELSE "healthy", issues |-> issues]

\* _check_health with the status decided before the error rate is looked at
check_health_status_early(snapshot) ==
    LET low == IF BelowOne(snapshot.current_fps) /\ snapshot.total_frames > 0
               THEN <<"Low or no frame rate">> ELSE <<>>
        high == IF snapshot.total_frames > 0
                   /\ 10 * snapshot.error_count > snapshot.total_frames
                THEN <<"High error rate">> ELSE <<>>
        issues == low \o high
    IN  [status |-> IF low # <<>> THEN "degraded" ELSE "healthy", issues |-> issues]

\* HealthMonitor._check_health.  error_count / total_frames > 0.1 is a comparison of
\* floats; for counts below 2^53 it holds exactly when 10 * error_count >
\* total_frames (the quotient is rounded to the nearest float, as is the literal).
check_health(snapshot) ==
    LET low == IF BelowOne(snapshot.current_fps) /\ snapshot.total_frames > 0
               THEN <<"Low or no frame rate">> ELSE <<>>
        high == IF snapshot.total_frames > 0
                   /\ 10 * snapshot.error_count > snapshot.total_frames
                THEN <<"High error rate">> ELSE <<>>
        issues == low \o high
    IN  [status |-> IF issues # <<>> THEN "degraded" ELSE "healthy", issues |-> issues]

\* the statistics _check_health is evaluated on: every frame and error count within
\* the bounds, with no rate sample or a last sample above, at or below one frame
\* per second
SnapshotStats ==
    {[InitStats EXCEPT !.frame_count = frames, !.error_count = errors,
                       !.fps_history = history] :
        frames \in 0..MaxSnapshotFrames,
        errors \in 0..MaxSnapshotErrors,
        history \in {<<>>, <<Rate(1)>>, <<Rate(TicksPerSecond)>>,
                     <<Rate(TicksPerSecond + 1)>>}}

InitHealth ==
    /\ Unstarted
    /\ stats \in SnapshotStats
    /\ config_file = Json(Document(config))
    /\ UnitIdle

\* _update_status, lines 203 and 209: self._check_health(self.stats.get_stats())
CheckHealth ==
    /\ health = NoVerdict
    /\ health' = check_health(get_stats(stats))
    /\ UNCHANGED <<process_vars, config_file, default, user, result, calls,
                   step_vars>>

NextHealth == CheckHealth

SpecHealth == InitHealth /\ [][NextHealth]_vars

\* ------------------------------------- the status document, statement by statement
\* the configurations the document is followed with: the rgb stream only, every
\* retry limit, without persistence
StatusConfigs == {c \in ShutdownConfigs : ~c.imu_enabled}

\* run at line 646 as in InitStream
InitStatus == InitStream /\ config \in StatusConfigs

\* _update_status, line 203: stats = self.stats.get_stats(), a dictionary of its own
StatusSnapshot ==
    /\ hpc = "update_status"
    /\ status' = [stats |-> get_stats(stats)]
    /\ hpc' = "build"
    /\ UNCHANGED <<supervisor_vars, dispatch_vars, monitor_running, status_file,
                   last_tick, stats, observed, exit_status, config_vars, unit_vars,
                   listing, lock, status_stats, call_time, published>>

\* a verdict on the statistics as they are when line 209 is reached
update_status_health_reread(snapshot, s) == check_health(get_stats(s))

\* _update_status, line 209: self._check_health(stats) with the local stats
update_status_health(snapshot, s) == check_health(snapshot)

\* _update_status, lines 204-210: the dictionary status
StatusBuild ==
    /\ hpc = "build"
    /\ status' = [timestamp |-> "datetime.now().isoformat()",
                  status |-> "running",
                  pid |-> "os.getpid()",
                  stats |-> status.stats,
                  health |-> update_status_health(status.stats, stats)]
    /\ hpc' = "write"
    /\ UNCHANGED <<supervisor_vars, dispatch_vars, monitor_running, status_file,
                   last_tick, stats, observed, exit_status, config_vars, unit_vars,
                   listing, lock, status_stats, call_time, published>>

\* _update_status, lines 212-216: the document is written, or the write fails and
\* the exception is caught; _update_status returns and line 196 sleeps
StatusWrite ==
    /\ hpc = "write"
    /\ \E written \in BOOLEAN :
         /\ published' = IF written THEN status ELSE published
         /\ status_file' = IF written THEN [exists |-> TRUE, keys |-> Len(StatusKeys)]
                           ELSE status_file
         /\ last_tick' = IF written THEN "written" ELSE "failed"
    /\ status' = NoDocument
    /\ hpc' = "sleep"
    /\ UNCHANGED <<supervisor_vars, dispatch_vars, monitor_running, stats, observed,
                   exit_status, config_vars, unit_vars, listing, lock, status_stats,
                   call_time>>

\* the steps of the main thread from line 646 to the end of run, without an IMU:
\* the channels are opened and the dispatch loop runs until the flag is cleared
StatusMainThread ==
    \/ GetQueues
    \/ ResetAttempts
    \/ WhileRunning
    \/ PollRgb
    \/ UpdateFrameStats
    \/ LoopCheck
    \/ StopMonitoring
    \/ MainReturn

\* the steps of the monitor thread, _update_status a statement at a time
StatusThread ==
    \/ HealthCheck
    \/ StatusSnapshot
    \/ StatusBuild
    \/ StatusWrite
    \/ HealthSleep

NextStatus ==
    \/ StatusMainThread
    \/ StatusThread
    \/ DeviceLost
    \/ signal_handler

SpecStatus == InitStatus /\ [][NextStatus]_vars

\* ------------------------------------------------------------------ claims
\* the positions of the main thread inside _process_frames
PollSteps == {"poll_rgb", "poll_depth", "poll_detections", "poll_imu"}
DispatchSteps == PollSteps \cup {"while_running", "update_frame_stats"}
\* the positions of one connection attempt, lines 624-664
AttemptSteps == {"create_pipeline", "connect", "detect", "temperature", "get_queues",
                 "reset_attempts"} \cup DispatchSteps
\* the positions after run's loop
ExitSteps == {"stop_monitoring", "returned", "exited"}
\* run's loop has started: max_attempts holds the configured limit
LoopStarted == pc \notin {"construct", "run"} /\ hpc # "not_started"
\* the reconnect attempts are exhausted after at least one failure
Failed == LoopStarted /\ raised_at # "none" /\ reconnect_attempts >= max_attempts

\* C1: with max_reconnect_attempts = N >= 1, once N connect attempts have failed in a
\* row the supervisor is past its loop (Failed), and no attempt is ever in progress
\* with N failures counted.
C1_FailedAfterMaxAttempts ==
    (LoopStarted /\ max_attempts >= 1 /\ reconnect_attempts >= max_attempts)
        => (pc \in ExitSteps /\ reconnect_attempts = max_attempts)

C1_Witness ==
    /\ pc = "exited"
    /\ running
    /\ max_attempts = MaxAttempts
    /\ reconnect_attempts = max_attempts
    /\ stats.error_count = max_attempts

\* C2 (the claim as stated): a channel poll that raises on a lost device ends the
\* Dispatch Loop: control reaches run's handler with the device torn down, where the
\* attempt counter is incremented.
C2_DeviceFailureEndsDispatch ==
    [][(device = "lost" /\ pc \in PollSteps /\ pc' # pc)
          => (pc' = "except" /\ device' = "closed")]_vars

\* C3: whenever the Dispatch Loop runs, the attempt counter is 0, whatever number
\* of failed attempts preceded the connection.
C3_AttemptsResetOnStreaming ==
    pc \in DispatchSteps => reconnect_attempts = 0

C3_Witness ==
    /\ pc = "poll_rgb"
    /\ raised_at = "connect"
    /\ stats.error_count >= 1
    /\ reconnect_attempts = 0

\* C4: when _process_frames returns because the stop flag is set, run's loop ends
\* without another attempt, and neither the attempt counter nor the error counter
\* changes from the return on.
C4_ShutdownFromDispatch ==
    [][/\ (pc = "while_running" /\ ~running /\ pc' # pc) => pc' = "loop_check"
       /\ (~running /\ pc \in {"while_running", "loop_check"} \cup ExitSteps)
             => /\ pc' \in {"while_running", "loop_check"} \cup ExitSteps
                /\ reconnect_attempts' = reconnect_attempts
                /\ stats' = stats]_vars

C4_Witness ==
    /\ pc = "exited"
    /\ ~running
    /\ queues # {}
    /\ stats.frame_count >= 1
    /\ reconnect_attempts = 0
    /\ exit_status = 0

\* C5 (the claim as stated): the exit status is non-zero when the process ends on a
\* startup error or in Failed, and zero when it ends on a shutdown request.
C5_ExitStatus ==
    pc = "exited" =>
        IF hpc = "not_started" \/ Failed THEN exit_status # 0 ELSE exit_status = 0

\* C6 (the claim as stated): a reader of the status path never finds an empty or a
\* partially written document.
C6_ReaderNeverTorn == observed # "torn"

\* C7 (the claim as stated): after the device is opened the detection step leaves a
\* usable capability set and raises nothing: the supervisor goes on to open the
\* channels.
C7_DetectingProceeds ==
    /\ pc \in {"temperature", "get_queues"} => HasGet(available_features)
    /\ raised_at # "features_get"

\* C8 (the claim as stated): the image directory and the imu directory each hold at
\* most max_files artifact files after every save.
C8_ArtifactCountBounded ==
    /\ Len(files) <= config.max_files
    /\ Cardinality(imu_files) <= config.max_files

\* C9 (the claim as stated): for max_files = m >= 1, after n image saves exactly the
\* min(n, m) most recently written files remain.
C9_MostRecentRemain ==
    config.max_files >= 1 =>
        LET k == IF writes < config.max_files THEN writes ELSE config.max_files
        IN  /\ Len(files) = k
            /\ \A i \in 1..Len(files) : files[i].ctime = writes - k + i

\* C10: a step of a Dispatch Loop iteration that raises is caught: the error counter
\* grows by exactly one, the loop tests its condition again, and the device, the
\* attempt counter, the queues and the process are left as they were.
C10_RecordErrorAbsorbed ==
    [][(pc \in PollSteps /\ pc' \notin PollSteps \cup {"update_frame_stats"})
          => /\ pc' = "while_running"
             /\ stats' = [stats EXCEPT !.error_count = @ + 1]
             /\ UNCHANGED <<device, reconnect_attempts, queues, frame_count,
                            exit_status, running>>]_vars

C10_Witness ==
    /\ pc = "update_frame_stats"
    /\ device = "open"
    /\ raised_at = "none"
    /\ stats.error_count >= 1
    /\ stats.frame_count >= 1

\* the key paths of a document, the empty path included, and the value at a path
RECURSIVE KeyPaths(_)
KeyPaths(doc) ==
    IF doc.map
    THEN {<<>>} \cup UNION {{<<key>> \o path : path \in KeyPaths(doc.items[key])} :
                              key \in DOMAIN doc.items}
    ELSE {<<>>}

RECURSIVE ValueAt(_, _)
ValueAt(doc, path) ==
    IF path = <<>> THEN doc ELSE ValueAt(doc.items[Head(path)], Tail(path))

Parent(path) == SubSeq(path, 1, Len(path) - 1)

\* C11: a health tick that fails (taking the snapshot, evaluating, opening, serializing
\* or writing) leaves the monitor thread at the sleep of its loop, and the thread
\* ends only when monitoring was stopped or the process exits.
C11_FailedTickContinues ==
    [][/\ (hpc \in {"update_status", "dump"} /\ last_tick' = "failed"
              /\ hpc' \notin {hpc, "dump"} /\ pc' # "exited") => hpc' = "sleep"
       /\ (hpc' = "ended" /\ hpc # "ended") => (~monitor_running \/ pc' = "exited")]_vars

C11_Witness ==
    /\ hpc = "dump"
    /\ last_tick = "failed"
    /\ status_file.keys >= 1
    /\ monitor_running
    /\ pc # "exited"

\* C12 (the claim as stated): a reload that finds the file malformed (not JSON, not
\* readable, or JSON that is not an object) leaves the installed configuration as it
\* was; any other reload installs the configuration loaded from the file.
C12_ReloadAllOrNothing ==
    [][(config_file' # config_file \/ config' # config) =>
          IF config_file' \in {Malformed, Json(Leaf(0))}
          THEN config' = config
          ELSE config' = ConfigOf(load_config(DEFAULT_CONFIG, config_file', TRUE).returned)
      ]_vars

\* C13 (the claim as stated): with the configuration of a well-formed file installed,
\* at start or by a reload, every component reads the installed configuration: the
\* retry limit of run's loop and the check interval of the health monitor are those
\* of self.config.
C13_AllReadInstalledConfig ==
    (config_file.state = "json" /\ config_file.content.map) =>
        /\ health_check_interval = config.health_check_interval
        /\ pc \in AttemptSteps \cup {"loop_check", "except", "sleep"}
              => max_attempts = config.max_reconnect_attempts

\* C14: a step that changes the configuration or the configuration file (a reload)
\* leaves the position of the main thread (also inside a dispatch iteration), the
\* attempt counter, the device, the queues, the stop flag and the statistics as they
\* were.
C14_ReloadChangesConfigOnly ==
    [][(config' # config \/ config_file' # config_file) =>
          UNCHANGED <<pc, reconnect_attempts, max_attempts, device, queues, pipeline,
                      available_features, running, stats, frame_count, files,
                      imu_files, raised_at, exit_status>>]_vars

C14_Witness ==
    /\ pc = "update_frame_stats"
    /\ device = "open"
    /\ config # monitor_config
    /\ config.save_frames
    /\ Len(files) = 1
    /\ stats.frame_count >= 1

\* C15 (the claim as stated): merge(D, U) has every key path of D; at every leaf of U
\* it has U's value; a key of D that U's map at the same place does not have keeps
\* D's value.
C15_MergeKeepsDefaultPaths ==
    result.op = "merge" =>
        LET merged == result.returned
        IN  /\ KeyPaths(default) \subseteq KeyPaths(merged)
            /\ \A path \in KeyPaths(user) :
                  ~ValueAt(user, path).map
                     => /\ path \in KeyPaths(merged)
                        /\ ValueAt(merged, path) = ValueAt(user, path)
            /\ \A path \in KeyPaths(default) \ KeyPaths(user) :
                  (Parent(path) \in KeyPaths(user) /\ ValueAt(user, Parent(path)).map)
                     => /\ path \in KeyPaths(merged)
                        /\ ValueAt(merged, path) = ValueAt(default, path)

C17_RepeatedTimestampAbsorbed ==
    [][calls'.repeated = calls.repeated + 1
          => /\ ~calls'.raised
             /\ stats'.frame_count = stats.frame_count + 1
             /\ stats'.last_frame_time = stats.last_frame_time
             /\ \/ stats'.fps_history = stats.fps_history
                \/ stats'.fps_history = push_fps(stats.fps_history, NoRate)]_vars

\* C18: while the calls of update_frame_stats are made at strictly increasing times,
\* each call leaves total_frames equal to the number of calls and at most FpsWindow
\* rates in the window; a rate pushed on a full window evicts the oldest one.
C18_FramesCountedWindowBounded ==
    [][(calls'.total = calls.total + 1 /\ calls'.repeated = 0)
          => /\ get_stats(stats').total_frames = calls'.total
             /\ Len(stats'.fps_history) <= FpsWindow
             /\ Len(stats.fps_history) = FpsWindow
                   => /\ Len(stats'.fps_history) = FpsWindow
                      /\ SubSeq(stats'.fps_history, 1, FpsWindow - 1)
                            = Tail(stats.fps_history)]_vars

C18_Witness ==
    /\ calls.total = MaxCalls
    /\ calls.repeated = 0
    /\ calls.slow = 1
    /\ get_stats(stats).total_frames = MaxCalls
    /\ Len(stats.fps_history) = FpsWindow
    /\ \A i \in 1..FpsWindow : stats.fps_history[i] = Rate(1)

\* C19: a snapshot with total_frames = 0 gets the verdict healthy with no issue,
\* whatever its error count and its current rate.
C19_StartupGrace ==
    (health # NoVerdict /\ get_stats(stats).total_frames = 0)
        => health = [status |-> "healthy", issues |-> <<>>]

C19_Witness ==
    /\ health.status = "healthy"
    /\ stats.frame_count = 0
    /\ stats.error_count = MaxSnapshotErrors
    /\ BelowOne(get_stats(stats).current_fps)

\* C20: the verdict holds the high error rate issue exactly when total_frames > 0 and
\* 10 * error_count > total_frames: with 100 frames, 11 errors give the issue and the
\* status degraded, 9 and 10 errors do not give it.
C20_HighErrorRate ==
    health # NoVerdict =>
        LET snapshot == get_stats(stats)
            reported == \E i \in 1..Len(health.issues) : health.issues[i] = "High error rate"
        IN  /\ reported <=> (snapshot.total_frames > 0
                              /\ 10 * snapshot.error_count > snapshot.total_frames)
            /\ reported => health.status = "degraded"
            /\ (snapshot.total_frames = 100 /\ snapshot.error_count = 11) => reported
            /\ (snapshot.total_frames = 100 /\ snapshot.error_count \in {9, 10})
                  => ~reported

C20_Witness ==
    /\ health.status = "degraded"
    /\ health.issues = <<"High error rate">>
    /\ stats.frame_count = 100
    /\ stats.error_count = 11

\* C21: for every snapshot the verdict is degraded exactly when the frame rate rule
\* (current_fps < 1.0 with total_frames > 0) or the error rate rule fires, and
\* healthy otherwise; the issues are one entry per rule that fired, the frame rate
\* entry before the error rate entry.
C21_VerdictMatchesRules ==
    health # NoVerdict =>
        LET snapshot == get_stats(stats)
            slow == BelowOne(snapshot.current_fps) /\ snapshot.total_frames > 0
            faulty == snapshot.total_frames > 0
                         /\ 10 * snapshot.error_count > snapshot.total_frames
        IN  /\ health.status = "degraded" <=> (slow \/ faulty)
            /\ health.status = "healthy" <=> ~(slow \/ faulty)
            /\ Len(health.issues) = (IF slow THEN 1 ELSE 0) + (IF faulty THEN 1 ELSE 0)
            /\ slow => health.issues[1] = "Low or no frame rate"
            /\ faulty => health.issues[Len(health.issues)] = "High error rate"

C21_Witness ==
    /\ health.status = "degraded"
    /\ health.issues = <<"Low or no frame rate", "High error rate">>
    /\ stats.frame_count > 0
    /\ BelowOne(get_stats(stats).current_fps)

\* C22: no step decreases the cumulative frame, error or sensor packet counter:
\* a connection failure, a new connection attempt, a configuration reload and a
\* record of the dispatch loop each leave every counter where it was or above.
C22_CountersNeverDecrease ==
    [][/\ stats'.frame_count >= stats.frame_count
       /\ stats'.error_count >= stats.error_count
       /\ stats'.imu_data_count >= stats.imu_data_count]_vars

C22_Witness ==
    /\ config # monitor_config
    /\ stats.frame_count = MaxFrames
    /\ stats.error_count = MaxErrors
    /\ device = "lost"
    /\ pc = "while_running"

\* C23 (the claim as stated): a step of the Dispatch Loop in which an image write or
\* a deletion of the retention sweep fails logs the failure, raises the error
\* counter by exactly one and goes on with the rest of the same iteration.
C23_PersistFailureCounted ==
    [][(pc \in {"poll_rgb", "poll_depth"} /\ pc' # pc
           /\ logged' \in {"Error saving frame", "Error cleaning up files"})
          => /\ stats'.error_count = stats.error_count + 1
             /\ pc' \in PollSteps \cup {"update_frame_stats"}]_vars

\* C24 (the claim as stated): once a termination signal has set the stop flag, the
\* next loop test of the Health Evaluator ends its loop and no further tick is
\* started, whether the supervisor is streaming, connecting or waiting in backoff.
C24_EvaluatorSeesStopFlag ==
    [][(~running /\ pc \in AttemptSteps \cup {"sleep"}
           /\ hpc = "while_running" /\ hpc' # hpc) => hpc' = "ended"]_vars

\* the counters have room for the steps that follow
WithinBounds == stats.error_count < MaxErrors /\ stats.frame_count < MaxFrames

\* C25: from every state in which the stop flag is set, the daemon terminates: the
\* processing loop starts no iteration after its test has seen the flag, run's loop
\* ends, monitoring is stopped and the process exits, also while the device is lost
\* and every record fails, and also from the backoff delay.
C25_StopLeadsToExit ==
    /\ [][(~running /\ pc = "while_running" /\ pc' # pc) => pc' = "loop_check"]_vars
    /\ (~running /\ WithinBounds) ~> (pc = "exited" /\ ~monitor_running)

C25_Witness ==
    /\ pc = "exited"
    /\ ~running
    /\ ~monitor_running
    /\ queues # {}
    /\ stats.error_count = MaxErrors
    /\ stats.frame_count = 0

\* C26: when the attempts are exhausted run's loop ends and stop_monitoring is
\* called; once it was called the evaluator starts no tick (the one in progress may
\* still be written), and the evaluator ends for good.
C26_FailedStopsPublishing ==
    /\ [][/\ (pc = "except" /\ pc' # pc /\ reconnect_attempts' >= max_attempts)
                => pc' = "stop_monitoring"
          /\ (pc = "stop_monitoring" /\ pc' # pc) => ~monitor_running'
          /\ (~monitor_running /\ hpc = "while_running" /\ hpc' # hpc)
                => hpc' = "ended"
          /\ (hpc = "ended" /\ pc' # "exited") => status_file' = status_file]_vars
    /\ Failed ~> [](hpc = "ended")

C26_Witness ==
    /\ Failed
    /\ running
    /\ pc = "returned"
    /\ ~monitor_running
    /\ hpc = "dump"
    /\ status_file.keys >= 1

\* C30: an attempt that raises (in the pipeline build, the device open, the use of
\* the detected features or the channel opening) reaches the handler, which adds
\* exactly one to the error counter and to the attempt counter; it then waits once
\* and tests the loop condition when the attempt counter is below the limit and no
\* stop is requested, and leaves the loop without waiting otherwise.
C30_FailedAttemptCountedOnce ==
    [][/\ (pc \in {"create_pipeline", "connect", "temperature", "get_queues"}
              /\ pc' \notin AttemptSteps)
             => (pc' = "except" /\ stats' = stats
                   /\ reconnect_attempts' = reconnect_attempts)
       /\ (pc = "except" /\ pc' # pc)
             => /\ stats' = [stats EXCEPT !.error_count = @ + 1]
                /\ reconnect_attempts' = reconnect_attempts + 1
                /\ pc' = IF reconnect_attempts' < max_attempts /\ running
                         THEN "sleep" ELSE "stop_monitoring"
       /\ (pc = "sleep" /\ pc' # pc)
             => (pc' = "loop_check" /\ stats' = stats
                   /\ reconnect_attempts' = reconnect_attempts)
       /\ (pc = "stop_monitoring" /\ pc' # pc) => pc' = "returned"]_vars

C30_Witness ==
    /\ pc = "sleep"
    /\ running
    /\ raised_at = "get_queues"
    /\ device = "closed"
    /\ reconnect_attempts = 1
    /\ max_attempts = MaxAttempts
    /\ stats.error_count = 1

\* C28: a pass of the sweep removes only a file of the listing the sweep took at its
\* start; a file created in the directory after the listing was taken is not
\* removed by that sweep.
C28_SweepDeletesListedOnly ==
    [][\A name \in Names(files) \ Names(files') :
          name \in Names(listing.taken) /\ name \notin listing.created]_vars

C28_Witness ==
    /\ pc = "swept"
    /\ logged = "none"
    /\ Len(listing.taken) > config.max_files + 1
    /\ listing.created # {}
    /\ listing.created \subseteq Names(files)
    /\ Len(files) > config.max_files

\* C29: every read and every update of the statistics is made with the single lock
\* held by the thread that makes it, and a snapshot never shows an update half
\* applied: its window holds at most FpsWindow rates, it has a last frame time
\* exactly when it has frames, and the window holds one rate for every frame after
\* the first, up to FpsWindow
C29_SnapshotUnderLock ==
    /\ pc \in MainLocked => lock = "main"
    /\ hpc \in {"get_stats", "get_stats_release"} => lock = "monitor"
    /\ status_stats.taken =>
          /\ status_stats.window <= FpsWindow
          /\ (status_stats.total_frames > 0) = (status_stats.last_frame_time > 0)
          /\ status_stats.total_frames > 0 =>
                status_stats.window = IF status_stats.total_frames - 1 < FpsWindow
                                      THEN status_stats.total_frames - 1
                                      ELSE FpsWindow

\* a snapshot of a full window is taken while the main thread waits for the lock
\* to record the next frame
C29_Witness ==
    /\ hpc = "get_stats_release"
    /\ lock = "monitor"
    /\ pc = "update_frame_stats"
    /\ status_stats.taken
    /\ status_stats.window = FpsWindow
    /\ status_stats.total_frames > FpsWindow + 1

\* one more error and one more frame can be counted in this run
RoomToCount == stats.error_count < MaxErrors /\ frame_count < MaxFrames

\* C27: the main thread and the monitor thread make progress independently and
\* neither blocks the other: the lock is held by one thread at a time and is always
\* released, also when the update raises; a tick that is due publishes and sleeps
\* again unless the process exits first, and a poll of the main thread comes back
\* to the loop test, whatever the other thread does
C27_NeitherBlocksTheOther ==
    /\ [](lock = "main" =>
            pc \in MainLocked /\ hpc \notin {"get_stats", "get_stats_release"})
    /\ [](lock = "monitor" => pc \notin MainLocked)
    /\ (lock # "free") ~> (lock = "free" \/ pc = "exited")
    /\ (hpc = "update_status") ~> (hpc = "sleep" \/ pc = "exited")
    /\ (pc = "poll_rgb" /\ RoomToCount) ~> (pc = "while_running")

\* the update raised on equal times inside the with block and the lock is free
\* again, while the monitor thread is at its call of get_stats
C27_Witness ==
    /\ pc = "increment_error"
    /\ lock = "free"
    /\ call_time = stats.last_frame_time
    /\ call_time > 0
    /\ logged = "Error processing frames"
    /\ hpc = "update_status"

\* C31: for every max_files >= 0, a sweep that nothing disturbs (no unlink fails, no
\* other writer) leaves the directory without its oldest count - max_files entries
\* when it held count > max_files entries (without all of them when max_files = 0),
\* and leaves it as it was when count <= max_files
C31_SweepDeletesOldest ==
    (pc = "swept" /\ logged = "none" /\ writes = Len(listing.taken)) =>
        LET count == Len(listing.taken)
        IN  files = IF count > config.max_files
                    THEN SubSeq(listing.taken, count - config.max_files + 1, count)
                    ELSE listing.taken

\* the positions of an iteration whose polls raised nothing, from the call of
\* update_frame_stats to the end of it
TickSteps == {"update_frame_stats", "frame_time", "frame_trim", "frame_add",
              "frame_last", "frame_release"}

\* the positions of the handler of an iteration that raised
HandlerSteps == {"increment_error", "error_add", "error_release"}

\* C32: an iteration of the dispatch loop whose polls raised nothing goes through
\* update_frame_stats back to the loop test with total_frames one higher and no
\* error counted, whether or not a channel delivered a record; an iteration that
\* raised goes through the handler back to the loop test with one more error and
\* no frame tick
C32_IterationRecordsOneTick ==
    [][/\ (pc \in TickSteps /\ pc' # pc) =>
             /\ pc' \in TickSteps \cup {"while_running"}
             /\ (pc' = "while_running") = (pc = "frame_release")
             /\ stats'.error_count = stats.error_count
             /\ stats'.frame_count =
                    stats.frame_count + (IF pc = "frame_add" THEN 1 ELSE 0)
       /\ (pc \in HandlerSteps /\ device = "open" /\ pc' # pc) =>
             /\ pc' \in HandlerSteps \cup {"while_running"}
             /\ (pc' = "while_running") = (pc = "error_release")
             /\ stats'.frame_count = stats.frame_count
             /\ stats'.error_count =
                    stats.error_count + (IF pc = "error_add" THEN 1 ELSE 0)]_vars

\* C33: every document the monitor thread has written has exactly the keys
\* timestamp, status, pid, stats and health, its status is running, and its health
\* is the verdict on the statistics snapshot of that same document
C33_DocumentFromOneSnapshot ==
    DOMAIN published # {} =>
        /\ DOMAIN published = {StatusKeys[i] : i \in 1..Len(StatusKeys)}
        /\ published.status = "running"
        /\ published.health = check_health(published.stats)

\* a document was written whose snapshot and verdict are behind the statistics:
\* the verdict on the statistics as they are now is a different one
C33_Witness ==
    /\ DOMAIN published # {}
    /\ last_tick = "written"
    /\ published.stats.total_frames < stats.frame_count
    /\ published.health.status = "degraded"
    /\ check_health(get_stats(stats)).status = "healthy"

\* C39: when a tick evaluates a snapshot with at least one frame and with as many
\* frames as the snapshot of the last document written (no frame tick in between),
\* its verdict is degraded with the issue 'Low or no frame rate'
C39_StallReported ==
    (/\ hpc = "write"
     /\ DOMAIN published # {}
     /\ published.stats.total_frames > 0
     /\ status.stats.total_frames = published.stats.total_frames) =>
        /\ status.health.status = "degraded"
        /\ \E i \in 1..Len(status.health.issues) :
              status.health.issues[i] = "Low or no frame rate"

\* C34: a step changes the image directory or the sensor directory only while it
\* handles an rgb frame, a depth frame or a sensor packet under a configuration
\* whose save_frames is set: a detection record changes neither, and with
\* save_frames unset no step creates or deletes a file
C34_ArtifactsOnlyWithPersistence ==
    [][(files' # files \/ imu_files' # imu_files) =>
          /\ config.save_frames
          /\ pc \in {"poll_rgb", "poll_depth", "poll_imu"}]_vars

\* with persistence on, an rgb frame was saved and the detection channel was polled
\* after it: the image is the only file
C34_Witness ==
    /\ pc = "update_frame_stats"
    /\ config.save_frames
    /\ "detections" \in queues
    /\ logged = "none"
    /\ Len(files) = 1
    /\ files[1].name.kind = "rgb"
    /\ imu_files = {}

\* C35: the attempt counter of run is never below 0 and never above
\* max_reconnect_attempts of the configuration, and the loop test of run starts an
\* attempt only with the stop flag unset and the counter below that limit (none at
\* all for a limit of 0)
C35_AttemptsWithinLimit ==
    /\ [](/\ 0 <= reconnect_attempts
          /\ reconnect_attempts <= config.max_reconnect_attempts)
    /\ [][(pc = "loop_check" /\ pc' = "create_pipeline") =>
             /\ running
             /\ reconnect_attempts < config.max_reconnect_attempts]_vars

\* C36: every name run asks of getOutputQueue after connecting is the name of a
\* stream of the pipeline built for this attempt, so the channels are opened and
\* the queues are streams of that pipeline
C36_ChannelsNameBuiltStreams ==
    [][(pc = "get_queues" /\ pc' # pc) =>
          /\ QueueNames(config, available_features) \subseteq pipeline
          /\ pc' = "reset_attempts"
          /\ queues' \subseteq pipeline]_vars

\* C37 as claimed: the save of an rgb frame deletes no depth image and the save of
\* a depth frame deletes no rgb image
C37_SweepSparesOtherKinds ==
    [][\A name \in Names(files) \ Names(files') :
          /\ pc = "poll_rgb" => name.kind = "rgb"
          /\ pc = "poll_depth" => name.kind = "depth"]_vars

\* C37, amended: a file of the image directory is deleted only by the save of an
\* image, of either kind, and every file deleted is older than every file that
\* stays; no step deletes a sensor-packet file
C37_SweepEvictsOldestImages ==
    [][/\ imu_files \subseteq imu_files'
       /\ \A i \in 1..Len(files) :
             files[i].name \notin Names(files') =>
                /\ pc \in {"poll_rgb", "poll_depth"}
                /\ \A j \in 1..Len(files) :
                      files[j].name \in Names(files') => i < j]_vars

\* in the first iteration an rgb frame and a depth frame were saved under
\* max_files = 1: the depth image is the only file, its save evicted the rgb image
C37_Witness ==
    /\ config.save_frames
    /\ config.max_files = 1
    /\ frame_count = 0
    /\ writes = 2
    /\ logged = "none"
    /\ Len(files) = 1
    /\ files[1].name.kind = "depth"

\* C38: no save writes to the path of a file that exists: an image that is written
\* gets a name no file of the image directory has, and a sensor packet that is
\* handled with persistence on gets a name no file of the sensor directory has
C38_SavesNeverCollide ==
    [][/\ (pc = "poll_rgb" /\ writes' # writes) =>
             FrameName("rgb", clock, frame_count) \notin Names(files)
       /\ (pc = "poll_depth" /\ writes' # writes) =>
             FrameName("depth", clock, frame_count) \notin Names(files)
       /\ (/\ pc = "poll_imu"
           /\ config.save_frames
           /\ stats'.imu_data_count # stats.imu_data_count) =>
             ImuName(clock) \notin imu_files]_vars

====
